---------------------------- MODULE Spec2Model ----------------------------
(***************************************************************************)
(* A model of HashGraph (src/src/hash_graph.cpp): the handle-based,        *)
(* bidirected sequence graph with embedded paths and its occurrence index. *)
(*                                                                         *)
(* A handle_t is the packed integer 2*id + orientation bit.  A node_t is a *)
(* record of its forward sequence and its two edge vectors.  A             *)
(* path_mapping_t lives on the heap: `mappings' maps its address to the    *)
(* record, and the address 0 is the null pointer.  Hash maps are functions *)
(* whose DOMAIN is the key set; operator[] on an absent key inserts a      *)
(* default-constructed value, as in the source.                            *)
(*                                                                         *)
(* The iterating member functions (follow_edges, for_each_handle) call a   *)
(* visitor supplied by the caller, so they are modelled step by step:      *)
(* `frame' holds the locals of the iteration in progress, the tasks of a   *)
(* parallel iteration, and what the visitor has been called with.          *)
(***************************************************************************)
EXTENDS Integers, Sequences, FiniteSets, TLC

VARIABLES graph, max_id, min_id, next_path_id, path_id, paths, mappings,
          occurrences, last, calls, frame

vars == <<graph, max_id, min_id, next_path_id, path_id, paths, mappings,
          occurrences, last, calls, frame>>

(***************************************************************************)
(* Bounds of the model.                                                    *)
(***************************************************************************)
\* largest node id the model lets max_id reach
MaxId == 3
\* largest number of edges create_edge is allowed to build up
MaxEdges == 2
\* largest number of offsets passed to divide_handle
MaxOffsets == 2
\* largest number of path_mapping_t records alive at once
MaxSteps == 3
\* largest path id handed out (caps next_path_id)
MaxPaths == 2
\* largest number of calls made on one object
MaxCalls == 6

\* numeric_limits<id_t>::max(); id_t is 64 bits wide in the source, the
\* model checker's integers are 32 bits wide, and the value is only ever
\* compared with node ids by min()
ID_T_MAX == 2147483647
\* The value a size_t subtraction wraps around by; it only has to exceed
\* every sequence length, because string::substr clamps the length.
SIZE_T_WRAP == 1073741824
\* the null pointer
nullptr == 0

\* sequences handed to create_handle
SeqInputs == { <<"A", "C", "G">> }
\* names handed to create_path_handle
NameInputs == { <<"x">>, <<"y">> }

(***************************************************************************)
(* Small helpers on vectors.                                               *)
(***************************************************************************)
Range(s) == { s[i] : i \in DOMAIN s }

\* the multiset of the elements of a vector, as a function element -> count
Multiset(s) == [ x \in Range(s) |-> Cardinality({ i \in DOMAIN s : s[i] = x }) ]

Reverse(s) == [ i \in 1..Len(s) |-> s[Len(s) + 1 - i] ]

Min(a, b) == IF a < b THEN a ELSE b
Max(a, b) == IF a > b THEN a ELSE b

\* index of the first element of s that is in matching, 0 when there is none
FirstIndex(s, matching) ==
    IF \E i \in DOMAIN s : s[i] \in matching
    THEN CHOOSE i \in DOMAIN s :
             s[i] \in matching /\ \A j \in 1..(i - 1) : s[j] \notin matching
    ELSE 0

\* vector idiom "v[i] = v.back(); v.pop_back();"
SwapRemove(s, i) ==
    LET moved == [ s EXCEPT ![i] = s[Len(s)] ]
    IN  SubSeq(moved, 1, Len(s) - 1)

\* std::string::substr(pos, len): the characters from pos (0-based), at most len
substr(s, pos, len) ==
    SubSeq(s, pos + 1, Min(Len(s), pos + len))

\* a - b in size_t arithmetic
SizeSub(a, b) == IF a >= b THEN a - b ELSE SIZE_T_WRAP + (a - b)

complement(c) ==
    CASE c = "A" -> "T"
      [] c = "T" -> "A"
      [] c = "C" -> "G"
      [] c = "G" -> "C"
      [] OTHER   -> c

reverse_complement(s) == [ i \in 1..Len(s) |-> complement(s[Len(s) + 1 - i]) ]

(***************************************************************************)
(* Handle codec.                                                           *)
(***************************************************************************)
get_handle(node_id, is_reverse) == 2 * node_id + (IF is_reverse THEN 1 ELSE 0)

get_id(handle) == handle \div 2

get_is_reverse(handle) == handle % 2 = 1

\* a flip that sets the orientation bit instead of toggling it
flip_set(handle) == IF handle % 2 = 1 THEN handle ELSE handle + 1

flip(handle) == IF handle % 2 = 1 THEN handle - 1 ELSE handle + 1

forward(handle) == IF get_is_reverse(handle) THEN flip(handle) ELSE handle

(***************************************************************************)
(* Node store.                                                             *)
(***************************************************************************)
node_t(sequence) ==
    [ sequence |-> sequence, left_edges |-> <<>>, right_edges |-> <<>> ]

\* hash map operator[]: an absent key is inserted with a default value
At(map, key, default) ==
    IF key \in DOMAIN map THEN map ELSE (key :> default) @@ map

Erase(map, key) == [ k \in DOMAIN map \ {key} |-> map[k] ]

\* graph[id] as an lvalue: the map after the lookup
Touch(g, id) == At(g, id, node_t(<<>>))

\* the edge vector of node id on one side ("left" or "right")
EdgeList(g, id, side) ==
    IF side = "left" THEN g[id].left_edges ELSE g[id].right_edges

SetEdgeList(g, id, side, list) ==
    IF side = "left"
    THEN [ g EXCEPT ![id].left_edges = list ]
    ELSE [ g EXCEPT ![id].right_edges = list ]

\* where the reciprocal entry of a stored entry lives on the target's node
BwdSide(target) == IF get_is_reverse(target) THEN "right" ELSE "left"

get_length(g, handle) == Len(g[get_id(handle)].sequence)

\* get_sequence that reads the stored sequence for either orientation
get_sequence_stored(g, handle) == g[get_id(handle)].sequence

get_sequence(g, handle) ==
    IF get_is_reverse(handle)
    THEN reverse_complement(g[get_id(handle)].sequence)
    ELSE g[get_id(handle)].sequence

\* the handles the iteratee of follow_edges is called with, in order, when
\* it never asks to stop
follow_edges(g, handle, go_left) ==
    LET edge_list == IF get_is_reverse(handle) # go_left
                     THEN g[get_id(handle)].left_edges
                     ELSE g[get_id(handle)].right_edges
    IN  [ i \in 1..Len(edge_list) |->
            IF go_left THEN flip(edge_list[i]) ELSE edge_list[i] ]

\* create_edge without the test for a reversing self-edge
create_edge_two_sided(g, left, right) ==
    LET g0 == Touch(g, get_id(left))
        g1 == IF get_is_reverse(left)
              THEN SetEdgeList(g0, get_id(left), "left",
                               Append(g0[get_id(left)].left_edges, right))
              ELSE SetEdgeList(g0, get_id(left), "right",
                               Append(g0[get_id(left)].right_edges, right))
        g2 == Touch(g1, get_id(right))
    IN  IF get_is_reverse(right)
        THEN SetEdgeList(g2, get_id(right), "right",
                         Append(g2[get_id(right)].right_edges, flip(left)))
        ELSE SetEdgeList(g2, get_id(right), "left",
                         Append(g2[get_id(right)].left_edges, flip(left)))

\* get_degree: the size of the edge list follow_edges reads
get_degree(g, handle, go_left) ==
    LET edge_list == IF get_is_reverse(handle) # go_left
                     THEN g[get_id(handle)].left_edges
                     ELSE g[get_id(handle)].right_edges
    IN  Len(edge_list)

\* create_edge that leaves an edge alone that is already stored
create_edge_idempotent(g, left, right) ==
    LET g0 == Touch(g, get_id(left))
        g1 == IF get_is_reverse(left)
              THEN SetEdgeList(g0, get_id(left), "left",
                               Append(g0[get_id(left)].left_edges, right))
              ELSE SetEdgeList(g0, get_id(left), "right",
                               Append(g0[get_id(left)].right_edges, right))
        g2 == Touch(g1, get_id(right))
    IN  IF right \in Range(follow_edges(g0, left, FALSE))
        THEN g
        ELSE IF left # flip(right)
             THEN IF get_is_reverse(right)
                  THEN SetEdgeList(g2, get_id(right), "right",
                                   Append(g2[get_id(right)].right_edges,
                                          flip(left)))
                  ELSE SetEdgeList(g2, get_id(right), "left",
                                   Append(g2[get_id(right)].left_edges,
                                          flip(left)))
             ELSE g1

\* create_edge that records the edge on the left handle's node only
create_edge_one_sided(g, left, right) ==
    LET g0 == Touch(g, get_id(left))
    IN  IF get_is_reverse(left)
        THEN SetEdgeList(g0, get_id(left), "left",
                         Append(g0[get_id(left)].left_edges, right))
        ELSE SetEdgeList(g0, get_id(left), "right",
                         Append(g0[get_id(left)].right_edges, right))

create_edge(g, left, right) ==
    LET g0 == Touch(g, get_id(left))
        g1 == IF get_is_reverse(left)
              THEN SetEdgeList(g0, get_id(left), "left",
                               Append(g0[get_id(left)].left_edges, right))
              ELSE SetEdgeList(g0, get_id(left), "right",
                               Append(g0[get_id(left)].right_edges, right))
        g2 == Touch(g1, get_id(right))
    IN  IF left # flip(right)
        THEN IF get_is_reverse(right)
             THEN SetEdgeList(g2, get_id(right), "right",
                              Append(g2[get_id(right)].right_edges, flip(left)))
             ELSE SetEdgeList(g2, get_id(right), "left",
                              Append(g2[get_id(right)].left_edges, flip(left)))
        ELSE g1

\* destroy_edge that drops the last entry of the left list when none matches
destroy_edge_back(g, left, right) ==
    LET g0 == Touch(g, get_id(left))
        lside == IF get_is_reverse(left) THEN "left" ELSE "right"
        ll == EdgeList(g0, get_id(left), lside)
        i == IF FirstIndex(ll, { right }) = 0 THEN Len(ll)
             ELSE FirstIndex(ll, { right })
        g1 == IF i = 0 THEN g0
              ELSE SetEdgeList(g0, get_id(left), lside, SwapRemove(ll, i))
        g2 == Touch(g1, get_id(right))
        rside == IF get_is_reverse(right) THEN "right" ELSE "left"
        rl == EdgeList(g2, get_id(right), rside)
        j == FirstIndex(rl, { flip(left) })
    IN  IF j = 0 THEN g2
        ELSE SetEdgeList(g2, get_id(right), rside, SwapRemove(rl, j))

destroy_edge(g, left, right) ==
    LET g0 == Touch(g, get_id(left))
        lside == IF get_is_reverse(left) THEN "left" ELSE "right"
        ll == EdgeList(g0, get_id(left), lside)
        i == FirstIndex(ll, { right })
        g1 == IF i = 0 THEN g0
              ELSE SetEdgeList(g0, get_id(left), lside, SwapRemove(ll, i))
        g2 == Touch(g1, get_id(right))
        rside == IF get_is_reverse(right) THEN "right" ELSE "left"
        rl == EdgeList(g2, get_id(right), rside)
        j == FirstIndex(rl, { flip(left) })
    IN  IF j = 0 THEN g2
        ELSE SetEdgeList(g2, get_id(right), rside, SwapRemove(rl, j))


(***************************************************************************)
(* The whole object as one record, so that the handlers compose.           *)
(***************************************************************************)
World ==
    [ graph |-> graph, max_id |-> max_id, min_id |-> min_id,
      next_path_id |-> next_path_id, path_id |-> path_id, paths |-> paths,
      mappings |-> mappings, occurrences |-> occurrences ]

\* HashGraph::clear, and the state a default-constructed HashGraph is in
clear ==
    [ graph |-> <<>>, max_id |-> 0, min_id |-> ID_T_MAX, next_path_id |-> 1,
      path_id |-> <<>>, paths |-> <<>>, mappings |-> <<>>,
      occurrences |-> <<>> ]

\* create_handle that stores the sequence as read in reverse
create_handle_stored_reverse(w, sequence, id) ==
    [ w EXCEPT !.graph = (id :> node_t(reverse_complement(sequence))) @@ w.graph,
               !.max_id = Max(w.max_id, id),
               !.min_id = Min(w.min_id, id) ]

\* create_handle that forgets to lower min_id
create_handle_max_only(w, sequence, id) ==
    [ w EXCEPT !.graph = (id :> node_t(sequence)) @@ w.graph,
               !.max_id = Max(w.max_id, id) ]

\* create_handle that forgets to raise max_id
create_handle_min_only(w, sequence, id) ==
    [ w EXCEPT !.graph = (id :> node_t(sequence)) @@ w.graph,
               !.min_id = Min(w.min_id, id) ]

\* create_handle(sequence, id)
create_handle(w, sequence, id) ==
    [ w EXCEPT !.graph = (id :> node_t(sequence)) @@ w.graph,
               !.max_id = Max(w.max_id, id),
               !.min_id = Min(w.min_id, id) ]

\* create_handle(sequence) taking one past the largest key of the node map
create_handle_auto_live(w, sequence) ==
    create_handle(w, sequence,
                  IF DOMAIN w.graph = {} THEN w.max_id + 1
                  ELSE 1 + CHOOSE id \in DOMAIN w.graph :
                               \A other \in DOMAIN w.graph : other <= id)

\* create_handle(sequence): the id is one past max_id
create_handle_auto(w, sequence) == create_handle(w, sequence, w.max_id + 1)

(***************************************************************************)
(* apply_orientation.                                                      *)
(***************************************************************************)
\* One edge vector of the node being re-oriented: for each target, in
\* order, flip the first entry with this node's id in the target's
\* backward vector.  The target is read through a reference, so it is the
\* value the vector holds when the loop reaches it.
RECURSIVE flip_back_references(_, _, _, _)
flip_back_references(g, id, side, i) ==
    IF i > Len(EdgeList(g, id, side)) THEN g
    ELSE LET target == EdgeList(g, id, side)[i]
             g0 == Touch(g, get_id(target))
             bwd_side == BwdSide(target)
             bwd_edge_list == EdgeList(g0, get_id(target), bwd_side)
             j == FirstIndex(bwd_edge_list, { b \in Range(bwd_edge_list) : get_id(b) = id })
             g1 == IF j = 0 THEN g0
                   ELSE SetEdgeList(g0, get_id(target), bwd_side,
                          [ bwd_edge_list EXCEPT ![j] = flip(bwd_edge_list[j]) ])
         IN  flip_back_references(g1, id, side, i + 1)

\* apply_orientation that leaves the steps on the node as they were
flip_occurrences_skipped(w, id) == w

\* the occurrences of one node, flipped in place
flip_occurrences(w, id) ==
    IF id \in DOMAIN w.occurrences
    THEN [ w EXCEPT !.mappings =
             [ a \in DOMAIN w.mappings |->
                 IF a \in Range(w.occurrences[id])
                 THEN [ w.mappings[a] EXCEPT !.handle = flip(w.mappings[a].handle) ]
                 ELSE w.mappings[a] ] ]
    ELSE w

\* apply_orientation that leaves the sequence as it is stored
apply_orientation_sequence_kept(w, handle) ==
    IF ~get_is_reverse(handle) THEN w
    ELSE LET id == get_id(handle)
             g0 == Touch(w.graph, id)
             g2 == flip_back_references(g0, id, "left", 1)
             g3 == flip_back_references(g2, id, "right", 1)
             g4 == [ g3 EXCEPT ![id].left_edges = g3[id].right_edges,
                               ![id].right_edges = g3[id].left_edges ]
         IN  flip_occurrences([ w EXCEPT !.graph = g4 ], id)

apply_orientation(w, handle) ==
    IF ~get_is_reverse(handle) THEN w
    ELSE LET id == get_id(handle)
             g0 == Touch(w.graph, id)
             g1 == [ g0 EXCEPT ![id].sequence = reverse_complement(g0[id].sequence) ]
             g2 == flip_back_references(g1, id, "left", 1)
             g3 == flip_back_references(g2, id, "right", 1)
             g4 == [ g3 EXCEPT ![id].left_edges = g3[id].right_edges,
                               ![id].right_edges = g3[id].left_edges ]
         IN  flip_occurrences([ w EXCEPT !.graph = g4 ], id)

apply_orientation_result(handle) ==
    IF ~get_is_reverse(handle) THEN handle ELSE flip(handle)

(***************************************************************************)
(* destroy_handle.                                                         *)
(***************************************************************************)
\* One edge vector of the node being destroyed, read as the vector was when
\* the loop started: entries that name the node itself only edit the
\* node's own vectors, which the erase that follows discards.
RECURSIVE remove_back_references(_, _, _, _)
remove_back_references(g, id, list, i) ==
    IF i > Len(list) THEN g
    ELSE LET next == list[i]
             g0 == Touch(g, get_id(next))
             bwd_side == BwdSide(next)
             bwd_edge_list == EdgeList(g0, get_id(next), bwd_side)
             j == FirstIndex(bwd_edge_list, { b \in Range(bwd_edge_list) : get_id(b) = id })
             g1 == IF j = 0 THEN g0
                   ELSE SetEdgeList(g0, get_id(next), bwd_side,
                                    SwapRemove(bwd_edge_list, j))
         IN  remove_back_references(g1, id, list, i + 1)

destroy_handle(w, handle) ==
    LET id == get_id(handle)
        g0 == Touch(w.graph, id)
        g1 == remove_back_references(g0, id, g0[id].left_edges, 1)
        g2 == remove_back_references(g1, id, g0[id].right_edges, 1)
    IN  [ w EXCEPT !.graph = Erase(g2, id),
                   !.occurrences = Erase(w.occurrences, id) ]

(***************************************************************************)
(* Path store: path_t and its intrusive list of path_mapping_t.            *)
(***************************************************************************)
path_t(name, pid) ==
    [ name |-> name, path_id |-> pid, head |-> nullptr, tail |-> nullptr,
      count |-> 0 ]

path_mapping_t(handle, pid) ==
    [ handle |-> handle, path_id |-> pid, prev |-> nullptr, next |-> nullptr ]

\* operator new: an address no live record has (the lowest one)
NewAddress(heap) ==
    CHOOSE a \in 1..(Cardinality(DOMAIN heap) + 1) :
        a \notin DOMAIN heap /\ \A b \in 1..(a - 1) : b \in DOMAIN heap

\* push_back that links the new record but leaves tail at the old one
push_back_stale_tail(w, pid, handle) ==
    LET pushing == NewAddress(w.mappings)
        path == w.paths[pid]
        heap == (pushing :> path_mapping_t(handle, path.path_id)) @@ w.mappings
    IN  IF path.tail = nullptr
        THEN [ w EXCEPT !.mappings = heap,
                        !.paths[pid].tail = pushing,
                        !.paths[pid].head = pushing,
                        !.paths[pid].count = path.count + 1 ]
        ELSE [ w EXCEPT !.mappings = [ heap EXCEPT ![path.tail].next = pushing,
                                                   ![pushing].prev = path.tail ],
                        !.paths[pid].count = path.count + 1 ]

\* path_t::push_back on paths[pid]
push_back(w, pid, handle) ==
    LET pushing == NewAddress(w.mappings)
        path == w.paths[pid]
        heap == (pushing :> path_mapping_t(handle, path.path_id)) @@ w.mappings
    IN  IF path.tail = nullptr
        THEN [ w EXCEPT !.mappings = heap,
                        !.paths[pid].tail = pushing,
                        !.paths[pid].head = pushing,
                        !.paths[pid].count = path.count + 1 ]
        ELSE [ w EXCEPT !.mappings = [ heap EXCEPT ![path.tail].next = pushing,
                                                   ![pushing].prev = path.tail ],
                        !.paths[pid].tail = pushing,
                        !.paths[pid].count = path.count + 1 ]

\* insert_after that never moves tail
insert_after_stale_tail(w, pid, handle, mapping) ==
    LET inserting == NewAddress(w.mappings)
        path == w.paths[pid]
        heap == (inserting :> path_mapping_t(handle, path.path_id)) @@ w.mappings
    IN  IF mapping # nullptr
        THEN LET after == heap[mapping].next
                 h1 == [ heap EXCEPT ![inserting].next = after ]
                 h2 == IF after # nullptr
                       THEN [ h1 EXCEPT ![after].prev = inserting ]
                       ELSE h1
                 h3 == [ h2 EXCEPT ![mapping].next = inserting,
                                   ![inserting].prev = mapping ]
             IN  [ w EXCEPT !.mappings = h3,
                            !.paths[pid].count = path.count + 1 ]
        ELSE IF path.head # nullptr
             THEN [ w EXCEPT !.mappings = [ heap EXCEPT ![inserting].next = path.head,
                                                        ![path.head].prev = inserting ],
                             !.paths[pid].head = inserting,
                             !.paths[pid].count = path.count + 1 ]
             ELSE [ w EXCEPT !.mappings = heap,
                             !.paths[pid].head = inserting,
                             !.paths[pid].tail = inserting,
                             !.paths[pid].count = path.count + 1 ]

\* path_t::insert_after on paths[pid]; the new record is NewAddress(w.mappings)
insert_after(w, pid, handle, mapping) ==
    LET inserting == NewAddress(w.mappings)
        path == w.paths[pid]
        heap == (inserting :> path_mapping_t(handle, path.path_id)) @@ w.mappings
    IN  IF mapping # nullptr
        THEN LET after == heap[mapping].next
                 h1 == [ heap EXCEPT ![inserting].next = after ]
                 h2 == IF after # nullptr
                       THEN [ h1 EXCEPT ![after].prev = inserting ]
                       ELSE h1
                 h3 == [ h2 EXCEPT ![mapping].next = inserting,
                                   ![inserting].prev = mapping ]
             IN  [ w EXCEPT !.mappings = h3,
                            !.paths[pid].tail =
                                IF mapping = path.tail THEN inserting ELSE path.tail,
                            !.paths[pid].count = path.count + 1 ]
        ELSE IF path.head # nullptr
             THEN [ w EXCEPT !.mappings = [ heap EXCEPT ![inserting].next = path.head,
                                                        ![path.head].prev = inserting ],
                             !.paths[pid].head = inserting,
                             !.paths[pid].count = path.count + 1 ]
             ELSE [ w EXCEPT !.mappings = heap,
                             !.paths[pid].head = inserting,
                             !.paths[pid].tail = inserting,
                             !.paths[pid].count = path.count + 1 ]

\* occurrences[id].push_back(mapping)
add_occurrence(w, id, mapping) ==
    LET occ == At(w.occurrences, id, <<>>)
    IN  [ w EXCEPT !.occurrences = [ occ EXCEPT ![id] = Append(occ[id], mapping) ] ]

\* create_path_handle that takes the smallest id no live path has
create_path_handle_reusing(w, name) ==
    LET free == CHOOSE id \in 1..(Cardinality(DOMAIN w.paths) + 1) :
                    /\ id \notin DOMAIN w.paths
                    /\ \A smaller \in 1..(id - 1) : smaller \in DOMAIN w.paths
    IN  [ w EXCEPT !.path_id = (name :> free) @@ w.path_id,
                   !.paths = (free :> path_t(name, free)) @@ w.paths,
                   !.next_path_id = w.next_path_id + 1 ]

create_path_handle(w, name) ==
    [ w EXCEPT !.path_id = (name :> w.next_path_id) @@ w.path_id,
               !.paths = (w.next_path_id :> path_t(name, w.next_path_id)) @@ w.paths,
               !.next_path_id = w.next_path_id + 1 ]

append_occurrence(w, path, to_append) ==
    LET w1 == push_back(w, path, to_append)
    IN  add_occurrence(w1, get_id(to_append), w1.paths[path].tail)

\* the addresses of a list from `mapping' on, following next; `fuel' bounds
\* the walk
RECURSIVE Chain(_, _, _)
Chain(heap, mapping, fuel) ==
    IF mapping = nullptr \/ fuel = 0 \/ mapping \notin DOMAIN heap THEN <<>>
    ELSE <<mapping>> \o Chain(heap, heap[mapping].next, fuel - 1)

\* for_each_occurrence_in_path: the records of a path from head to tail
PathMappings(w, pid) ==
    Chain(w.mappings, w.paths[pid].head, Cardinality(DOMAIN w.mappings))

\* a callback that drops the last record of the bucket whichever it is
remove_occurrence_back(w, mapping) ==
    LET id == get_id(w.mappings[mapping].handle)
        occ == At(w.occurrences, id, <<>>)
    IN  [ w EXCEPT !.occurrences =
            IF occ[id] = <<>> THEN occ
            ELSE [ occ EXCEPT ![id] = SubSeq(occ[id], 1, Len(occ[id]) - 1) ] ]

\* one record taken out of its node's bucket (destroy_path's callback)
remove_occurrence(w, mapping) ==
    LET id == get_id(w.mappings[mapping].handle)
        occ == At(w.occurrences, id, <<>>)
        i == FirstIndex(occ[id], { mapping })
    IN  [ w EXCEPT !.occurrences =
            IF i = 0 THEN occ ELSE [ occ EXCEPT ![id] = SwapRemove(occ[id], i) ] ]

RECURSIVE remove_occurrences(_, _, _)
remove_occurrences(w, list, i) ==
    IF i > Len(list) THEN w
    ELSE remove_occurrences(remove_occurrence(w, list[i]), list, i + 1)

\* destroy_path; erasing the path_t runs its destructor, which frees the list
destroy_path(w, path) ==
    LET list == PathMappings(w, path)
        w1 == remove_occurrences(w, list, 1)
    IN  [ w1 EXCEPT !.path_id = Erase(w1.path_id, w1.paths[path].name),
                    !.paths = Erase(w1.paths, path),
                    !.mappings = [ a \in DOMAIN w1.mappings \ Range(list) |->
                                     w1.mappings[a] ] ]

(***************************************************************************)
(* divide_handle.                                                          *)
(***************************************************************************)
\* the offsets put "in forward orientation"
forward_offsets(node_length, handle, offsets) ==
    IF get_is_reverse(handle)
    THEN [ i \in 1..Len(offsets) |-> node_length - offsets[i] ]
    ELSE offsets

\* return_val as built in forward orientation: the node itself, then one
\* new node per offset, each created with the id one past max_id
divide_segments(w, handle, offsets) ==
    <<forward(handle)>> \o
    [ i \in 1..Len(offsets) |-> get_handle(w.max_id + i, FALSE) ]

\* the return value left in forward orientation
divide_handle_result_forward(w, handle, offsets) ==
    divide_segments(w, handle, offsets)

\* the value divide_handle returns
divide_handle_result(w, handle, offsets) ==
    LET return_val == divide_segments(w, handle, offsets)
    IN  IF get_is_reverse(handle) /\ Len(offsets) > 0
        THEN [ i \in 1..Len(return_val) |->
                 flip(return_val[Len(return_val) + 1 - i]) ]
        ELSE return_val

\* "divvy up the sequence onto separate nodes": offsets i..end
RECURSIVE divvy_up(_, _, _, _, _)
divvy_up(w, id, fwd, node_length, i) ==
    IF i > Len(fwd) THEN w
    ELSE LET length == SizeSub(IF i + 1 <= Len(fwd) THEN fwd[i + 1]
                                                    ELSE node_length,
                               fwd[i])
             g0 == Touch(w.graph, id)
             piece == substr(g0[id].sequence, fwd[i], length)
         IN  divvy_up(create_handle_auto([ w EXCEPT !.graph = g0 ], piece),
                      id, fwd, node_length, i + 1)

\* "update the backwards references back onto this node"
RECURSIVE retarget_back_references(_, _, _, _, _)
retarget_back_references(g, final_id, old, new, i) ==
    IF i > Len(g[final_id].right_edges) THEN g
    ELSE LET next == g[final_id].right_edges[i]
             g0 == Touch(g, get_id(next))
             bwd_side == BwdSide(next)
             bwd_edge_list == EdgeList(g0, get_id(next), bwd_side)
             j == FirstIndex(bwd_edge_list, { old })
             g1 == IF j = 0 THEN g0
                   ELSE SetEdgeList(g0, get_id(next), bwd_side,
                                    [ bwd_edge_list EXCEPT ![j] = new ])
         IN  retarget_back_references(g1, final_id, old, new, i + 1)

\* "create edges between the segments of the original node"
RECURSIVE chain_segments(_, _, _)
chain_segments(g, return_val, i) ==
    IF i > Len(return_val) THEN g
    ELSE chain_segments(create_edge(g, return_val[i - 1], return_val[i]),
                        return_val, i + 1)

\* the steps inserted for one occurrence of the divided node: handles[i..]
\* are inserted one after the other, starting after `mapping'
RECURSIVE insert_steps(_, _, _, _, _)
insert_steps(w, pid, handles, mapping, i) ==
    IF i > Len(handles) THEN w
    ELSE LET w1 == insert_after(w, pid, handles[i], mapping)
             inserted == NewAddress(w.mappings)
         IN  insert_steps(add_occurrence(w1, get_id(handles[i]), inserted),
                          pid, handles, inserted, i + 1)

\* the path update that treats a reverse step like a forward one
RECURSIVE divide_occurrences_unmirrored(_, _, _, _)
divide_occurrences_unmirrored(w, bucket, return_val, i) ==
    IF i > Len(bucket) THEN w
    ELSE LET mapping == bucket[i]
             pid == w.mappings[mapping].path_id
             rest == SubSeq(return_val, 2, Len(return_val))
         IN  divide_occurrences_unmirrored(insert_steps(w, pid, rest, mapping, 1),
                                           bucket, return_val, i + 1)

\* "update the paths and the occurrence records": bucket[i..]
RECURSIVE divide_occurrences(_, _, _, _)
divide_occurrences(w, bucket, return_val, i) ==
    IF i > Len(bucket) THEN w
    ELSE LET mapping == bucket[i]
             pid == w.mappings[mapping].path_id
             rest == SubSeq(return_val, 2, Len(return_val))
             w1 == IF get_is_reverse(w.mappings[mapping].handle)
                   THEN insert_steps(w, pid,
                            [ n \in 1..Len(rest) |-> flip(rest[Len(rest) + 1 - n]) ],
                            w.mappings[mapping].prev, 1)
                   ELSE insert_steps(w, pid, rest, mapping, 1)
         IN  divide_occurrences(w1, bucket, return_val, i + 1)

divide_handle(w, handle, offsets) ==
    IF Len(offsets) = 0 THEN w
    ELSE
    LET id == get_id(handle)
        node_length == get_length(w.graph, handle)
        fwd == forward_offsets(node_length, handle, offsets)
        return_val == divide_segments(w, handle, offsets)
        forward_handle == return_val[1]
        final == return_val[Len(return_val)]
        w1 == divvy_up(w, id, fwd, node_length, 1)
        g1 == [ w1.graph EXCEPT ![id].sequence =
                                    substr(w1.graph[id].sequence, 0, fwd[1]) ]
        g2 == [ g1 EXCEPT ![get_id(final)].right_edges = g1[id].right_edges,
                          ![id].right_edges = <<>> ]
        g3 == retarget_back_references(g2, get_id(final), flip(forward_handle),
                                       flip(final), 1)
        g4 == chain_segments(g3, return_val, 2)
        w2 == [ w1 EXCEPT !.graph = g4 ]
    IN  IF id \in DOMAIN w2.occurrences
        THEN divide_occurrences(w2, w2.occurrences[id], return_val, 1)
        ELSE w2

(***************************************************************************)
(* Persistence.  The stream is a vector of integers: one element per       *)
(* fixed-width integer field and one element per raw byte of a string.     *)
(***************************************************************************)
\* the byte written for a character of a sequence or of a name
Byte(c) ==
    CASE c = "A" -> 65
      [] c = "C" -> 67
      [] c = "G" -> 71
      [] c = "T" -> 84
      [] c = "x" -> 120
      [] c = "y" -> 121
      [] c = "NUL" -> 0

\* the character read from a byte; a read that fails leaves the character
\* resize() has stored
Char(b) ==
    CASE b = 65 -> "A"
      [] b = 67 -> "C"
      [] b = 71 -> "G"
      [] b = 84 -> "T"
      [] b = 120 -> "x"
      [] b = 121 -> "y"
      [] OTHER -> "NUL"

Bytes(str) == [ i \in 1..Len(str) |-> Byte(str[i]) ]
Chars(bytes) == [ i \in 1..Len(bytes) |-> Char(bytes[i]) ]

\* the orders a hash map with key set S can be iterated in
Orders(S) ==
    { o \in [ 1..Cardinality(S) -> S ] :
        \A i, j \in 1..Cardinality(S) : i # j => o[i] # o[j] }

\* the keys of S in ascending order
Ascending(S) ==
    CHOOSE o \in Orders(S) : \A i, j \in 1..Cardinality(S) : i < j => o[i] < o[j]

RECURSIVE Concat(_, _)
Concat(parts, i) ==
    IF i > Len(parts) THEN <<>> ELSE parts[i] \o Concat(parts, i + 1)

node_serialize(node) ==
    <<Len(node.sequence)>> \o Bytes(node.sequence)
    \o <<Len(node.left_edges)>> \o node.left_edges
    \o <<Len(node.right_edges)>> \o node.right_edges

\* a path written from its last step to its first
path_serialize_backwards(w, pid) ==
    LET path == w.paths[pid]
        steps == Chain(w.mappings, path.head, Cardinality(DOMAIN w.mappings))
    IN  <<path.path_id, Len(path.name)>> \o Bytes(path.name) \o <<path.count>>
        \o Reverse([ i \in 1..Len(steps) |-> w.mappings[steps[i]].handle ])

path_serialize(w, pid) ==
    LET path == w.paths[pid]
        steps == Chain(w.mappings, path.head, Cardinality(DOMAIN w.mappings))
    IN  <<path.path_id, Len(path.name)>> \o Bytes(path.name) \o <<path.count>>
        \o [ i \in 1..Len(steps) |-> w.mappings[steps[i]].handle ]

\* HashGraph::serialize, the two hash maps iterated in the given orders
serialize(w, node_order, path_order) ==
    <<w.max_id, w.min_id, w.next_path_id, Cardinality(DOMAIN w.graph)>>
    \o Concat([ i \in 1..Len(node_order) |->
                  <<node_order[i]>> \o node_serialize(w.graph[node_order[i]]) ], 1)
    \o <<Cardinality(DOMAIN w.paths)>>
    \o Concat([ i \in 1..Len(path_order) |-> path_serialize(w, path_order[i]) ], 1)

\* a reader that takes the first edge list for the right side
node_deserialize_swapped(in, pos) ==
    LET seq_size == in[pos]
        sequence == Chars(SubSeq(in, pos + 1, pos + seq_size))
        p1 == pos + 1 + seq_size
        num_right_edges == in[p1]
        right_edges == SubSeq(in, p1 + 1, p1 + num_right_edges)
        p2 == p1 + 1 + num_right_edges
        num_left_edges == in[p2]
        left_edges == SubSeq(in, p2 + 1, p2 + num_left_edges)
    IN  [ node |-> [ sequence |-> sequence, left_edges |-> left_edges,
                     right_edges |-> right_edges ],
          pos |-> p2 + 1 + num_left_edges ]

\* node_t::deserialize at position pos: the node and the position after it
node_deserialize(in, pos) ==
    LET seq_size == in[pos]
        sequence == Chars(SubSeq(in, pos + 1, pos + seq_size))
        p1 == pos + 1 + seq_size
        num_left_edges == in[p1]
        left_edges == SubSeq(in, p1 + 1, p1 + num_left_edges)
        p2 == p1 + 1 + num_left_edges
        num_right_edges == in[p2]
        right_edges == SubSeq(in, p2 + 1, p2 + num_right_edges)
    IN  [ node |-> [ sequence |-> sequence, left_edges |-> left_edges,
                     right_edges |-> right_edges ],
          pos |-> p2 + 1 + num_right_edges ]

\* the loop over num_nodes records: the world and the position after them
RECURSIVE read_nodes(_, _, _, _)
read_nodes(w, in, pos, n) ==
    IF n = 0 THEN [ w |-> w, pos |-> pos ]
    ELSE LET node_id == in[pos]
             r == node_deserialize(in, pos + 1)
         IN  read_nodes([ w EXCEPT !.graph = (node_id :> r.node) @@ w.graph ],
                        in, r.pos, n - 1)

RECURSIVE push_back_all(_, _, _, _)
push_back_all(w, pid, handles, i) ==
    IF i > Len(handles) THEN w
    ELSE push_back_all(push_back(w, pid, handles[i]), pid, handles, i + 1)

\* path_t::deserialize at position pos, and the move into paths and path_id
path_deserialize(w, in, pos) ==
    LET pid == in[pos]
        name_size == in[pos + 1]
        name == Chars(SubSeq(in, pos + 2, pos + 1 + name_size))
        p1 == pos + 2 + name_size
        num_mappings == in[p1]
        handles == SubSeq(in, p1 + 1, p1 + num_mappings)
        freed == IF pid \in DOMAIN w.paths
                 THEN Range(PathMappings(w, pid)) ELSE {}
        w0 == [ w EXCEPT !.mappings = [ a \in DOMAIN w.mappings \ freed |->
                                          w.mappings[a] ],
                         !.paths = (pid :> path_t(name, pid)) @@ w.paths,
                         !.path_id = (name :> pid) @@ w.path_id ]
    IN  [ w |-> push_back_all(w0, pid, handles, 1), pos |-> p1 + 1 + num_mappings ]

RECURSIVE read_paths(_, _, _, _)
read_paths(w, in, pos, n) ==
    IF n = 0 THEN [ w |-> w, pos |-> pos ]
    ELSE LET r == path_deserialize(w, in, pos)
         IN  read_paths(r.w, in, r.pos, n - 1)

\* "rebuild the occurrences of node mapping": paths order[i..]
RECURSIVE add_occurrences(_, _, _)
add_occurrences(w, list, i) ==
    IF i > Len(list) THEN w
    ELSE add_occurrences(
             add_occurrence(w, get_id(w.mappings[list[i]].handle), list[i]),
             list, i + 1)

\* a load that does not rebuild the index
rebuild_occurrences_skipped(w, order, i) == w

RECURSIVE rebuild_occurrences(_, _, _)
rebuild_occurrences(w, order, i) ==
    IF i > Len(order) THEN w
    ELSE rebuild_occurrences(add_occurrences(w, PathMappings(w, order[i]), 1),
                             order, i + 1)

\* HashGraph::deserialize; rebuild_order is the order the loaded paths map
\* is iterated in
deserialize(in, rebuild_order) ==
    LET w0 == [ clear EXCEPT !.max_id = in[1], !.min_id = in[2],
                             !.next_path_id = in[3] ]
        nodes == read_nodes(w0, in, 5, in[4])
        loaded == read_paths(nodes.w, in, nodes.pos + 1, in[nodes.pos])
    IN  rebuild_occurrences(loaded.w, rebuild_order, 1)

(***************************************************************************)
(* The state machine: one action per public operation.  `last' records the *)
(* latest call: its name, its handle or path arguments a and b, its        *)
(* offsets, and the value it returned (as a vector); `calls' counts the     *)
(* calls made so far.  An edit needs exclusive access: it is not made      *)
(* while an iteration is in progress, and the locals of an iteration that  *)
(* has returned are gone by the next call.                                 *)
(***************************************************************************)
Call(op, a, b, offs, ret) ==
    [ op |-> op, a |-> a, b |-> b, offs |-> offs, ret |-> ret ]

\* no iteration has been started
NoFrame ==
    [ op |-> "none", pc |-> "idle", handle |-> 0, go_left |-> FALSE,
      parallel |-> FALSE, todo |-> <<>>, created |-> {}, running |-> <<>>,
      keep_going |-> TRUE, invoked |-> <<>>, answers |-> <<>>, ret |-> TRUE ]

Install(w, call) ==
    /\ calls < MaxCalls
    /\ frame.pc \in { "idle", "done" }
    /\ frame' = NoFrame
    /\ calls' = calls + 1
    /\ graph' = w.graph
    /\ max_id' = w.max_id
    /\ min_id' = w.min_id
    /\ next_path_id' = w.next_path_id
    /\ path_id' = w.path_id
    /\ paths' = w.paths
    /\ mappings' = w.mappings
    /\ occurrences' = w.occurrences
    /\ last' = call

Init ==
    /\ graph = clear.graph
    /\ max_id = clear.max_id
    /\ min_id = clear.min_id
    /\ next_path_id = clear.next_path_id
    /\ path_id = clear.path_id
    /\ paths = clear.paths
    /\ mappings = clear.mappings
    /\ occurrences = clear.occurrences
    /\ last = Call("HashGraph", 0, 0, <<>>, <<>>)
    /\ calls = 0
    /\ frame = NoFrame

LiveHandles == { get_handle(id, rev) : id \in DOMAIN graph, rev \in BOOLEAN }

\* the strictly increasing offset vectors inside a sequence of length len
OffsetInputs(len) ==
    { offs \in UNION { [ 1..k -> 1..(len - 1) ] : k \in 0..MaxOffsets } :
        \A i \in 1..(Len(offs) - 1) : offs[i] < offs[i + 1] }

\* the steps that refer to a node, as the occurrence index has them
Bucket(id) == IF id \in DOMAIN occurrences THEN occurrences[id] ELSE <<>>

CreateHandle ==
    \E sequence \in SeqInputs :
        /\ max_id < MaxId
        /\ Install(create_handle_auto(World, sequence),
                   Call("create_handle", 0, 0, <<>>,
                        <<get_handle(max_id + 1, FALSE)>>))

CreateHandleWithId ==
    \E sequence \in SeqInputs, id \in 1..MaxId :
        /\ id \notin DOMAIN graph
        /\ Install(create_handle(World, sequence, id),
                   Call("create_handle_id", id, 0, <<>>,
                        <<get_handle(id, FALSE)>>))

\* the number of entries of all edge vectors
RECURSIVE EdgeEntries(_, _)
EdgeEntries(g, ids) ==
    IF ids = {} THEN 0
    ELSE LET id == CHOOSE x \in ids : TRUE
         IN  Len(g[id].left_edges) + Len(g[id].right_edges)
             + EdgeEntries(g, ids \ {id})

CreateEdge ==
    \E left \in LiveHandles, right \in LiveHandles :
        /\ EdgeEntries(graph, DOMAIN graph) + 2 <= 2 * MaxEdges
        /\ Install([ World EXCEPT !.graph = create_edge(graph, left, right) ],
                   Call("create_edge", left, right, <<>>, <<>>))

\* an edge that is stored is destroyed
DestroyEdge ==
    \E left \in LiveHandles, right \in LiveHandles :
        /\ right \in Range(follow_edges(graph, left, FALSE))
        /\ Install([ World EXCEPT !.graph = destroy_edge(graph, left, right) ],
                   Call("destroy_edge", left, right, <<>>, <<>>))

\* the sequences nodes are created with where the sequence matters
SequenceInputs == { <<"A", "C", "G">>, <<"T", "T">>, <<>> }

\* create_handle(sequence, id) with an id that is not live; the sequence
\* argument is kept in the call record
CreateHandleWithSequence ==
    \E sequence \in SequenceInputs, id \in 1..MaxId :
        /\ id \notin DOMAIN graph
        /\ Install(create_handle(World, sequence, id),
                   Call("create_handle_id", id, 0, sequence,
                        <<get_handle(id, FALSE)>>))

\* create_path_handle with a name that is not registered; the name is kept
\* in the call record
CreatePathHandleWithName ==
    \E name \in NameInputs :
        /\ name \notin DOMAIN path_id
        /\ next_path_id <= MaxPaths
        /\ Install(create_path_handle(World, name),
                   Call("create_path_handle", 0, 0, name, <<next_path_id>>))

\* the handles of the node ids of the model, live or not
Handles == { get_handle(id, rev) : id \in 1..MaxId, rev \in BOOLEAN }

\* get_handle(node_id, is_reverse); b is 1 for a reverse handle
GetHandle ==
    \E id \in 1..MaxId, is_reverse \in BOOLEAN :
        Install(World, Call("get_handle", id, IF is_reverse THEN 1 ELSE 0,
                            <<>>, <<get_handle(id, is_reverse)>>))

\* flip(handle)
Flip ==
    \E handle \in Handles :
        Install(World, Call("flip", handle, 0, <<>>, <<flip(handle)>>))

\* a swap that exchanges the sequences of the nodes of the two handles
swap_handles_sequences(w, a, b) ==
    IF get_id(a) \in DOMAIN w.graph /\ get_id(b) \in DOMAIN w.graph
    THEN [ w EXCEPT !.graph[get_id(a)].sequence = w.graph[get_id(b)].sequence,
                    !.graph[get_id(b)].sequence = w.graph[get_id(a)].sequence ]
    ELSE w

\* HashGraph::swap_handles: the body is empty
swap_handles(w, a, b) == w

\* every pair of handles once, a handle with itself included
SwapHandles ==
    \E a \in Handles, b \in Handles :
        /\ a <= b
        /\ Install(swap_handles(World, a, b), Call("swap_handles", a, b, <<>>, <<>>))

\* apply_orientation of a handle that is forward already
ApplyOrientationForward ==
    \E handle \in LiveHandles :
        /\ ~get_is_reverse(handle)
        /\ Install(apply_orientation(World, handle),
                   Call("apply_orientation", handle, 0, <<>>,
                        <<apply_orientation_result(handle)>>))

\* destroy_edge of an edge between live nodes that is not stored
DestroyEdgeNotStored ==
    \E left \in LiveHandles, right \in LiveHandles :
        /\ right \notin Range(follow_edges(graph, left, FALSE))
        /\ Install([ World EXCEPT !.graph = destroy_edge(graph, left, right) ],
                   Call("destroy_edge", left, right, <<>>, <<>>))

\* a node that a step still refers to must not be destroyed (precondition)
DestroyHandle ==
    \E handle \in LiveHandles :
        /\ Bucket(get_id(handle)) = <<>>
        /\ Install(destroy_handle(World, handle),
                   Call("destroy_handle", handle, 0, <<>>, <<>>))

\* a reverse handle is made the forward one
ApplyOrientation ==
    \E handle \in LiveHandles :
        /\ get_is_reverse(handle)
        /\ Install(apply_orientation(World, handle),
                   Call("apply_orientation", handle, 0, <<>>,
                        <<apply_orientation_result(handle)>>))

DivideHandle ==
    \E handle \in LiveHandles :
        \E offsets \in OffsetInputs(get_length(graph, handle)) :
            /\ Len(offsets) > 0
            /\ max_id + Len(offsets) <= MaxId
            /\ Cardinality(DOMAIN mappings)
                 + Len(offsets) * Len(Bucket(get_id(handle))) <= MaxSteps
            /\ Install(divide_handle(World, handle, offsets),
                       Call("divide_handle", handle, 0, offsets,
                            divide_handle_result(World, handle, offsets)))

\* divide_handle with no offsets
DivideHandleEmpty ==
    \E handle \in LiveHandles :
        Install(divide_handle(World, handle, <<>>),
                Call("divide_handle", handle, 0, <<>>,
                     divide_handle_result(World, handle, <<>>)))

CreatePathHandle ==
    \E name \in NameInputs :
        /\ name \notin DOMAIN path_id
        /\ next_path_id <= MaxPaths
        /\ Install(create_path_handle(World, name),
                   Call("create_path_handle", 0, 0, <<>>, <<next_path_id>>))

AppendOccurrence ==
    \E path \in DOMAIN paths, handle \in LiveHandles :
        /\ Cardinality(DOMAIN mappings) < MaxSteps
        /\ Install(append_occurrence(World, path, handle),
                   Call("append_occurrence", path, handle, <<>>,
                        <<NewAddress(mappings)>>))

DestroyPath ==
    \E path \in DOMAIN paths :
        Install(destroy_path(World, path),
                Call("destroy_path", path, 0, <<>>, <<>>))

Clear ==
    Install(clear, Call("clear", 0, 0, <<>>, <<>>))

\* deserialize reading the stream serialize writes for the current object
Deserialize ==
    \E rebuild_order \in Orders(DOMAIN paths) :
        Install(deserialize(serialize(World, Ascending(DOMAIN graph),
                                      Ascending(DOMAIN paths)),
                            rebuild_order),
                Call("deserialize", 0, 0, <<>>, <<>>))

\* graphs another object has written: two nodes with a reversing edge and a
\* path over both, and the empty graph
SavedGraphs ==
    LET w1 == create_handle(clear, <<"A", "C", "G">>, 2)
        w2 == create_handle_auto(w1, <<"A", "C", "G">>)
        w3 == [ w2 EXCEPT !.graph = create_edge(w2.graph, get_handle(2, FALSE),
                                                get_handle(3, TRUE)) ]
        w4 == create_path_handle(w3, <<"y">>)
        w5 == append_occurrence(w4, 1, get_handle(3, TRUE))
    IN  << append_occurrence(w5, 1, get_handle(2, FALSE)), clear >>

\* the graph a stream was written from: the object itself (0) or a saved one
Written(saved) == IF saved = 0 THEN World ELSE SavedGraphs[saved]

\* deserialize reading a stream serialize has written, the hash maps
\* iterated in any order by the writer and by the reader
DeserializeStream ==
    \E saved \in 0..Len(SavedGraphs) :
        \E node_order \in Orders(DOMAIN Written(saved).graph),
           path_order \in Orders(DOMAIN Written(saved).paths),
           rebuild_order \in Orders(DOMAIN Written(saved).paths) :
            Install(deserialize(serialize(Written(saved), node_order,
                                          path_order),
                                rebuild_order),
                    Call("deserialize", saved, 0, <<>>, <<>>))

\* the values an uninitialised local can hold after an in.read that failed
Garbage == { 0, 1 }

\* the reads a load can make after the end of the stream
MaxFailedReads == 64

\* the stream serialize writes for a saved graph
SavedStream(saved) ==
    serialize(SavedGraphs[saved], Ascending(DOMAIN SavedGraphs[saved].graph),
              Ascending(DOMAIN SavedGraphs[saved].paths))

\* what the reads of a stream cut after len fields find: the fields, then
\* whatever the locals held
Truncated(in, len, garbage) ==
    SubSeq(in, 1, len) \o [ i \in 1..MaxFailedReads |-> garbage ]

\* deserialize reading the stream of a saved graph that ends early; no
\* in.read is tested, so the load runs on to its end
DeserializeTruncated ==
    \E saved \in 1..Len(SavedGraphs), garbage \in Garbage :
        \E len \in 0..(Len(SavedStream(saved)) - 1) :
            \E rebuild_order \in
                  Orders(DOMAIN deserialize(Truncated(SavedStream(saved), len,
                                                      garbage), <<>>).paths) :
                Install(deserialize(Truncated(SavedStream(saved), len, garbage),
                                    rebuild_order),
                        Call("deserialize_truncated", saved, len, <<garbage>>,
                             <<>>))

(***************************************************************************)
(* Calls outside the documented preconditions.  The member functions test  *)
(* none of them, so the same code runs as in the regular case.             *)
(***************************************************************************)
\* the handles of the node ids that are not live
AbsentHandles ==
    { get_handle(id, rev) : id \in (1..MaxId) \ DOMAIN graph, rev \in BOOLEAN }

\* the offset vectors inside a sequence of length len that are not strictly
\* increasing
UnorderedOffsetInputs(len) ==
    { offs \in UNION { [ 1..k -> 1..(len - 1) ] : k \in 2..MaxOffsets } :
        \E i \in 1..(Len(offs) - 1) : offs[i] >= offs[i + 1] }

\* create_handle(sequence, id) with the id of a live node
CreateHandleWithLiveId ==
    \E sequence \in SeqInputs, id \in DOMAIN graph :
        Install(create_handle(World, sequence, id),
                Call("create_handle_id", id, 0, <<>>,
                     <<get_handle(id, FALSE)>>))

\* create_path_handle with a name that is registered
CreatePathHandleWithLiveName ==
    \E name \in DOMAIN path_id :
        /\ next_path_id <= MaxPaths
        /\ Install(create_path_handle(World, name),
                   Call("create_path_handle", 0, 0, <<>>, <<next_path_id>>))

\* divide_handle with offsets that are not strictly increasing
DivideHandleUnordered ==
    \E handle \in LiveHandles :
        \E offsets \in UnorderedOffsetInputs(get_length(graph, handle)) :
            /\ max_id + Len(offsets) <= MaxId
            /\ Cardinality(DOMAIN mappings)
                 + Len(offsets) * Len(Bucket(get_id(handle))) <= MaxSteps
            /\ Install(divide_handle(World, handle, offsets),
                       Call("divide_handle", handle, 0, offsets,
                            divide_handle_result(World, handle, offsets)))

\* create_edge with a handle of a node that is not live
CreateEdgeAbsent ==
    \E left, right \in LiveHandles \cup AbsentHandles :
        /\ { left, right } \cap AbsentHandles # {}
        /\ EdgeEntries(graph, DOMAIN graph) + 2 <= 2 * MaxEdges
        /\ Install([ World EXCEPT !.graph = create_edge(graph, left, right) ],
                   Call("create_edge", left, right, <<>>, <<>>))

\* destroy_edge with a handle of a node that is not live
DestroyEdgeAbsent ==
    \E left, right \in LiveHandles \cup AbsentHandles :
        /\ { left, right } \cap AbsentHandles # {}
        /\ Install([ World EXCEPT !.graph = destroy_edge(graph, left, right) ],
                   Call("destroy_edge", left, right, <<>>, <<>>))

\* destroy_handle of a node that is not live
DestroyHandleAbsent ==
    \E handle \in AbsentHandles :
        Install(destroy_handle(World, handle),
                Call("destroy_handle", handle, 0, <<>>, <<>>))

\* apply_orientation of a reverse handle of a node that is not live
ApplyOrientationAbsent ==
    \E handle \in AbsentHandles :
        /\ get_is_reverse(handle)
        /\ Install(apply_orientation(World, handle),
                   Call("apply_orientation", handle, 0, <<>>,
                        <<apply_orientation_result(handle)>>))

(***************************************************************************)
(* The iterating member functions.  Each call of the iteratee is a step of *)
(* its own, and the visitor answers true or false as it likes.  In `frame' *)
(* todo is what the loop iterator `it' has still ahead of it, invoked and  *)
(* answers are the calls of the iteratee so far and what they returned,    *)
(* created holds the tasks not yet started, and running maps a task whose  *)
(* iteratee has returned to its thread_keep_going.                         *)
(***************************************************************************)
\* the data members, which an iteration only reads
object == <<graph, max_id, min_id, next_path_id, path_id, paths, mappings,
            occurrences>>

\* the loop condition "it != end() && keep_going"
loop_condition_unflagged(not_at_end, keep_going) == not_at_end

loop_condition(not_at_end, keep_going) == not_at_end /\ keep_going

\* "keep_going = keep_going & thread_keep_going" without its read
atomic_and_overwriting(keep_going, thread_keep_going) == thread_keep_going

\* "#pragma omp atomic: keep_going = keep_going & thread_keep_going"
atomic_and(keep_going, thread_keep_going) == keep_going /\ thread_keep_going

\* the frame of an iteration that is about to enter its loop
EnterLoop(op, handle, go_left, parallel, todo) ==
    [ NoFrame EXCEPT !.op = op, !.pc = "loop", !.handle = handle,
                     !.go_left = go_left, !.parallel = parallel,
                     !.todo = todo ]

\* an iterating member function is called
Begin(f, call) ==
    /\ calls < MaxCalls
    /\ calls' = calls + 1
    /\ frame.pc \in { "idle", "done" }
    /\ frame' = f
    /\ last' = call
    /\ UNCHANGED object

\* a loop body that calls the iteratee and drops its answer
iterate_unanswered(f, answer) ==
    [ f EXCEPT !.todo = Tail(@),
               !.invoked = Append(@, Head(f.todo)),
               !.answers = Append(@, answer) ]

\* "keep_going = iteratee(...)" in a sequential loop, and "it++"
iterate(f, answer) ==
    [ f EXCEPT !.todo = Tail(@),
               !.invoked = Append(@, Head(f.todo)),
               !.answers = Append(@, answer),
               !.keep_going = answer ]

\* "return keep_going"
return(f) == [ f EXCEPT !.pc = "done", !.ret = f.keep_going ]

FollowEdgesBegin ==
    \E handle \in LiveHandles, go_left \in BOOLEAN :
        Begin(EnterLoop("follow_edges", handle, go_left, FALSE,
                        follow_edges(graph, handle, go_left)),
              Call("follow_edges", handle, 0, <<>>, <<>>))

FollowEdgesVisit ==
    /\ frame.op = "follow_edges"
    /\ frame.pc = "loop"
    /\ loop_condition(frame.todo # <<>>, frame.keep_going)
    /\ \E answer \in BOOLEAN : frame' = iterate(frame, answer)
    /\ UNCHANGED <<object, last, calls>>

FollowEdgesReturn ==
    /\ frame.op = "follow_edges"
    /\ frame.pc = "loop"
    /\ ~loop_condition(frame.todo # <<>>, frame.keep_going)
    /\ frame' = return(frame)
    /\ UNCHANGED <<object, last, calls>>

\* the hash map is iterated in an order of its own
ForEachHandleBegin ==
    \E parallel \in BOOLEAN, order \in Orders(DOMAIN graph) :
        Begin(EnterLoop("for_each_handle", 0, FALSE, parallel,
                        [ i \in 1..Len(order) |-> get_handle(order[i], FALSE) ]),
              Call("for_each_handle", 0, 0, <<>>, <<>>))

\* the sequential loop
ForEachHandleVisit ==
    /\ frame.op = "for_each_handle"
    /\ frame.pc = "loop"
    /\ ~frame.parallel
    /\ loop_condition(frame.todo # <<>>, frame.keep_going)
    /\ \E answer \in BOOLEAN : frame' = iterate(frame, answer)
    /\ UNCHANGED <<object, last, calls>>

ForEachHandleReturn ==
    /\ frame.op = "for_each_handle"
    /\ frame.pc = "loop"
    /\ ~frame.parallel
    /\ ~loop_condition(frame.todo # <<>>, frame.keep_going)
    /\ frame' = return(frame)
    /\ UNCHANGED <<object, last, calls>>

\* What the spawning loop reads as keep_going.  The read is not atomic and
\* races with the tasks' atomic updates: it yields the current value or the
\* one the loop has seen before (the flag only ever goes from true to false).
RacyRead(keep_going) == { keep_going, TRUE }

\* the thread of the single region creates the task of the next node
SpawnTask ==
    /\ frame.op = "for_each_handle"
    /\ frame.pc = "loop"
    /\ frame.parallel
    /\ \E seen \in RacyRead(frame.keep_going) :
           loop_condition(frame.todo # <<>>, seen)
    /\ frame' = [ frame EXCEPT !.todo = Tail(@),
                               !.created = @ \cup { Head(frame.todo) } ]
    /\ UNCHANGED <<object, last, calls>>

\* the spawning loop ends
LeaveLoop ==
    /\ frame.op = "for_each_handle"
    /\ frame.pc = "loop"
    /\ frame.parallel
    /\ \E seen \in RacyRead(frame.keep_going) :
           ~loop_condition(frame.todo # <<>>, seen)
    /\ frame' = [ frame EXCEPT !.pc = "join" ]
    /\ UNCHANGED <<object, last, calls>>

\* a task starts: "bool thread_keep_going = iteratee(get_handle(it->first))"
RunTask ==
    /\ frame.op = "for_each_handle"
    /\ \E handle \in frame.created, answer \in BOOLEAN :
           frame' = [ frame EXCEPT !.created = @ \ { handle },
                                   !.running = (handle :> answer) @@ @,
                                   !.invoked = Append(@, handle),
                                   !.answers = Append(@, answer) ]
    /\ UNCHANGED <<object, last, calls>>

\* a task ends with its atomic update of the shared flag
TaskUpdate ==
    /\ frame.op = "for_each_handle"
    /\ \E handle \in DOMAIN frame.running :
           frame' = [ frame EXCEPT
                        !.keep_going = atomic_and(@, frame.running[handle]),
                        !.running = Erase(@, handle) ]
    /\ UNCHANGED <<object, last, calls>>

\* the end of the parallel region waits for every task, then "return"
Join ==
    /\ frame.op = "for_each_handle"
    /\ frame.pc = "join"
    /\ frame.created = {}
    /\ DOMAIN frame.running = {}
    /\ frame' = return(frame)
    /\ UNCHANGED <<object, last, calls>>

(***************************************************************************)
(* for_each_occurrence_on_handle_impl.                                     *)
(***************************************************************************)
\* a lookup that keys the index by the handle with its orientation
occurrences_find_oriented(occ, handle) ==
    IF handle \in DOMAIN occ THEN occ[handle] ELSE <<>>

\* "occurrences.find(get_id(handle))": the bucket, none when the id has no entry
occurrences_find(occ, handle) ==
    IF get_id(handle) \in DOMAIN occ THEN occ[get_id(handle)] ELSE <<>>

\* the occurrence_handle_t made for a record: its path_id and its address
occurrence_handle(heap, mapping) == << heap[mapping].path_id, mapping >>

\* the occurrence handles of a bucket, in the order of the bucket
occurrence_handles(heap, bucket) ==
    [ i \in 1..Len(bucket) |-> occurrence_handle(heap, bucket[i]) ]

\* for_each_occurrence_on_handle is called with a handle of any node id
ForEachOccurrenceOnHandleBegin ==
    \E handle \in LiveHandles \cup AbsentHandles :
        Begin(EnterLoop("for_each_occurrence_on_handle", handle, FALSE, FALSE,
                        occurrence_handles(mappings,
                                           occurrences_find(occurrences,
                                                            handle))),
              Call("for_each_occurrence_on_handle", handle, 0, <<>>, <<>>))

\* "if (!iteratee(occ)) return false" leaves the loop with the answer
ForEachOccurrenceOnHandleVisit ==
    /\ frame.op = "for_each_occurrence_on_handle"
    /\ frame.pc = "loop"
    /\ loop_condition(frame.todo # <<>>, frame.keep_going)
    /\ \E answer \in BOOLEAN : frame' = iterate(frame, answer)
    /\ UNCHANGED <<object, last, calls>>

ForEachOccurrenceOnHandleReturn ==
    /\ frame.op = "for_each_occurrence_on_handle"
    /\ frame.pc = "loop"
    /\ ~loop_condition(frame.todo # <<>>, frame.keep_going)
    /\ frame' = return(frame)
    /\ UNCHANGED <<object, last, calls>>

\* every operation
Next ==
    \/ CreateHandle
    \/ CreateHandleWithId
    \/ CreateEdge
    \/ DestroyEdge
    \/ DestroyHandle
    \/ ApplyOrientation
    \/ DivideHandle
    \/ DivideHandleEmpty
    \/ CreatePathHandle
    \/ AppendOccurrence
    \/ DestroyPath
    \/ Clear
    \/ Deserialize
    \/ CreateHandleWithLiveId
    \/ CreatePathHandleWithLiveName
    \/ DivideHandleUnordered
    \/ CreateEdgeAbsent
    \/ DestroyEdgeAbsent
    \/ DestroyHandleAbsent
    \/ ApplyOrientationAbsent
    \/ FollowEdgesBegin
    \/ FollowEdgesVisit
    \/ FollowEdgesReturn
    \/ ForEachHandleBegin
    \/ ForEachHandleVisit
    \/ ForEachHandleReturn
    \/ SpawnTask
    \/ LeaveLoop
    \/ RunTask
    \/ TaskUpdate
    \/ Join
    \/ DeserializeStream
    \/ DeserializeTruncated
    \/ ForEachOccurrenceOnHandleBegin
    \/ ForEachOccurrenceOnHandleVisit
    \/ ForEachOccurrenceOnHandleReturn
    \/ DestroyEdgeNotStored
    \/ ApplyOrientationForward
    \/ CreateHandleWithSequence
    \/ CreatePathHandleWithName
    \/ GetHandle
    \/ Flip
    \/ SwapHandles

Spec == Init /\ [][Next]_vars

\* the node and edge operations, on a graph without paths
NextGraph ==
    \/ CreateHandle
    \/ CreateHandleWithId
    \/ CreateEdge
    \/ DestroyEdge
    \/ DestroyHandle
    \/ ApplyOrientation
    \/ DivideHandle

SpecGraph == Init /\ [][NextGraph]_vars

\* the path operations, on a graph without edges
NextPath ==
    \/ CreateHandle
    \/ DestroyHandle
    \/ ApplyOrientation
    \/ DivideHandle
    \/ CreatePathHandle
    \/ AppendOccurrence
    \/ DestroyPath
    \/ Clear
    \/ Deserialize

SpecPath == Init /\ [][NextPath]_vars

\* building edges and following them
NextFollow ==
    \/ CreateHandle
    \/ CreateEdge
    \/ FollowEdgesBegin
    \/ FollowEdgesVisit
    \/ FollowEdgesReturn

SpecFollow == Init /\ [][NextFollow]_vars

\* building and removing edges
NextEdge ==
    \/ CreateHandle
    \/ CreateEdge
    \/ DestroyEdge

SpecEdge == Init /\ [][NextEdge]_vars

\* creating nodes and iterating over them
NextForEach ==
    \/ CreateHandle
    \/ ForEachHandleBegin
    \/ ForEachHandleVisit
    \/ ForEachHandleReturn
    \/ SpawnTask
    \/ LeaveLoop
    \/ RunTask
    \/ TaskUpdate
    \/ Join

SpecForEach == Init /\ [][NextForEach]_vars

\* the edits that fill a graph, and the loads
NextPersist ==
    \/ CreateHandle
    \/ DivideHandle
    \/ CreatePathHandle
    \/ AppendOccurrence
    \/ DestroyPath
    \/ DeserializeStream

SpecPersist == Init /\ [][NextPersist]_vars

\* the edits that fill a graph, and the loads of streams that end early
NextCorrupt ==
    \/ CreateHandle
    \/ DivideHandle
    \/ CreatePathHandle
    \/ AppendOccurrence
    \/ DeserializeTruncated

SpecCorrupt == Init /\ [][NextCorrupt]_vars

\* paths over nodes, and the lookup of the steps on a node
NextOccurrences ==
    \/ CreateHandle
    \/ ApplyOrientation
    \/ CreatePathHandle
    \/ AppendOccurrence
    \/ DestroyPath
    \/ ForEachOccurrenceOnHandleBegin
    \/ ForEachOccurrenceOnHandleVisit
    \/ ForEachOccurrenceOnHandleReturn

SpecOccurrences == Init /\ [][NextOccurrences]_vars

\* edges and paths, and the deletion of edges that are not there
NextNoEdge ==
    \/ CreateHandle
    \/ CreateEdge
    \/ CreatePathHandle
    \/ AppendOccurrence
    \/ DestroyEdgeNotStored

SpecNoEdge == Init /\ [][NextNoEdge]_vars

\* nodes with their sequences, read and turned in either orientation
NextOrient ==
    \/ CreateHandle
    \/ DivideHandle
    \/ ApplyOrientation
    \/ ApplyOrientationForward
    \/ CreatePathHandle
    \/ AppendOccurrence

SpecOrient == Init /\ [][NextOrient]_vars

\* nodes created with any sequence and id, then edited
NextSequence ==
    \/ CreateHandleWithSequence
    \/ ApplyOrientation
    \/ DivideHandle
    \/ DestroyHandle

SpecSequence == Init /\ [][NextSequence]_vars

\* paths created, filled and destroyed, and the graph cleared
NextNames ==
    \/ CreateHandle
    \/ CreatePathHandleWithName
    \/ AppendOccurrence
    \/ DestroyPath
    \/ Clear

SpecNames == Init /\ [][NextNames]_vars

\* handles made and flipped, of live nodes and of others
NextCodec ==
    \/ CreateHandle
    \/ GetHandle
    \/ Flip

SpecCodec == Init /\ [][NextCodec]_vars

\* the edits that fill the graph serialize writes
NextLayout ==
    \/ CreateHandle
    \/ DivideHandle
    \/ CreatePathHandle
    \/ AppendOccurrence

SpecLayout == Init /\ [][NextLayout]_vars

\* handles swapped in a graph with edges and paths
NextSwap ==
    \/ CreateHandle
    \/ DivideHandle
    \/ CreatePathHandle
    \/ AppendOccurrence
    \/ SwapHandles

SpecSwap == Init /\ [][NextSwap]_vars

\* the node and path edits, called within and outside their preconditions
NextMisuse ==
    \/ CreateHandle
    \/ DivideHandle
    \/ CreatePathHandle
    \/ AppendOccurrence
    \/ CreateHandleWithLiveId
    \/ CreatePathHandleWithLiveName
    \/ DivideHandleUnordered

SpecMisuse == Init /\ [][NextMisuse]_vars

\* the edits called with handles of nodes that are not live
NextAbsent ==
    \/ CreateHandle
    \/ CreateEdge
    \/ CreateEdgeAbsent
    \/ DestroyEdgeAbsent
    \/ DestroyHandleAbsent
    \/ ApplyOrientationAbsent

SpecAbsent == Init /\ [][NextAbsent]_vars

\* the operations that create and destroy nodes, with the orientation and
\* path edits, which leave the set of nodes alone
NextIds ==
    \/ CreateHandle
    \/ CreateHandleWithId
    \/ DestroyHandle
    \/ DivideHandle
    \/ DivideHandleEmpty
    \/ ApplyOrientation
    \/ CreatePathHandle
    \/ AppendOccurrence
    \/ DestroyPath
    \/ Clear

SpecIds == Init /\ [][NextIds]_vars

(***************************************************************************)
(* Observations used by the properties.                                    *)
(***************************************************************************)
\* the object after the step
WorldNext ==
    [ graph |-> graph', max_id |-> max_id', min_id |-> min_id',
      next_path_id |-> next_path_id', path_id |-> path_id', paths |-> paths',
      mappings |-> mappings', occurrences |-> occurrences' ]

\* the handles of a path, from get_first_occurrence along get_next_occurrence
PathHandles(w, pid) ==
    LET steps == PathMappings(w, pid)
    IN  [ i \in 1..Len(steps) |-> w.mappings[steps[i]].handle ]

\* the addresses of a list from `mapping' on, following prev
RECURSIVE ChainBack(_, _, _)
ChainBack(heap, mapping, fuel) ==
    IF mapping = nullptr \/ fuel = 0 \/ mapping \notin DOMAIN heap THEN <<>>
    ELSE <<mapping>> \o ChainBack(heap, heap[mapping].prev, fuel - 1)

\* how often v occurs in the vector s
Count(s, v) == Cardinality({ i \in DOMAIN s : s[i] = v })

\* the steps of all live paths
LiveSteps == UNION { Range(PathMappings(World, p)) : p \in DOMAIN paths }

(***************************************************************************)
(* C2.  The occurrence index is exact: every step of every live path is    *)
(* held exactly once by the bucket of the node id of its handle and by no  *)
(* other bucket, and every bucket holds steps of live paths only.          *)
(***************************************************************************)
C2_OccurrenceIndexExact ==
    /\ \A m \in LiveSteps :
          /\ m \in DOMAIN mappings
          /\ \A id \in DOMAIN occurrences \cup { get_id(mappings[m].handle) } :
                Count(Bucket(id), m) =
                    IF id = get_id(mappings[m].handle) THEN 1 ELSE 0
    /\ \A id \in DOMAIN occurrences : Range(occurrences[id]) \subseteq LiveSteps

\* deserialize has just rebuilt an index in which two steps share a node
\* and a third step is on another node
C2_Witness ==
    /\ last.op = "deserialize"
    /\ \E id \in DOMAIN occurrences : Len(occurrences[id]) >= 2
    /\ Cardinality({ id \in DOMAIN occurrences : occurrences[id] # <<>> }) >= 2

(***************************************************************************)
(* C9.  The step list of every live path with count n >= 1 is well formed: *)
(* next from head visits n steps and ends at tail, prev from tail visits   *)
(* the same steps in reverse, only the first step has no previous and only *)
(* the last has no next step, and every step names its path.               *)
(***************************************************************************)
C9_PathListsWellFormed ==
    \A p \in DOMAIN paths :
        paths[p].count >= 1 =>
            LET fuel == Cardinality(DOMAIN mappings) + 1
                fwd == Chain(mappings, paths[p].head, fuel)
                bwd == ChainBack(mappings, paths[p].tail, fuel)
                n == paths[p].count
            IN  /\ Len(fwd) = n
                /\ fwd[n] = paths[p].tail
                /\ bwd = Reverse(fwd)
                /\ \A i \in 1..n :
                      /\ (mappings[fwd[i]].prev = nullptr) <=> (i = 1)
                      /\ (mappings[fwd[i]].next = nullptr) <=> (i = n)
                      /\ mappings[fwd[i]].path_id = p

\* divide_handle has just spliced steps into a path that now has three
C9_Witness ==
    /\ last.op = "divide_handle"
    /\ \E p \in DOMAIN paths : paths[p].count >= 3

(***************************************************************************)
(* C4.  divide_handle of node X with k offsets replaces, in every path,    *)
(* each step on X in place: a forward step by the forward segments left to *)
(* right, a reverse step by the flipped segments right to left; every      *)
(* other step keeps its handle and place, and the count grows by k for     *)
(* each step that was on X.                                                *)
(***************************************************************************)
\* the forward segment handles S0..Sk of the latest divide_handle call
SegmentsOf(call) ==
    IF get_is_reverse(call.a)
    THEN [ i \in 1..Len(call.ret) |-> flip(call.ret[Len(call.ret) + 1 - i]) ]
    ELSE call.ret

RECURSIVE ExpandSteps(_, _, _)
ExpandSteps(handles, segments, i) ==
    IF i > Len(handles) THEN <<>>
    ELSE (IF handles[i] = segments[1] THEN segments
          ELSE IF handles[i] = flip(segments[1])
               THEN [ n \in 1..Len(segments) |->
                        flip(segments[Len(segments) + 1 - n]) ]
               ELSE <<handles[i]>>)
         \o ExpandSteps(handles, segments, i + 1)

C4_PathsSurviveSplit ==
    [][ last'.op = "divide_handle" =>
          /\ DOMAIN paths' = DOMAIN paths
          /\ \A p \in DOMAIN paths :
                LET before == PathHandles(World, p)
                    on_x == Cardinality({ i \in DOMAIN before :
                                get_id(before[i]) = get_id(last'.a) })
                IN  /\ PathHandles(WorldNext, p)
                         = ExpandSteps(before, SegmentsOf(last'), 1)
                    /\ paths'[p].count
                         = paths[p].count + Len(last'.offs) * on_x ]_vars

\* a step on the reverse handle of the divided node has been replaced by
\* three steps, the flipped last segment first
C4_Witness ==
    /\ last.op = "divide_handle"
    /\ Len(last.offs) = 2
    /\ \E p \in DOMAIN paths :
          LET h == PathHandles(World, p)
              seg == SegmentsOf(last)
          IN  \E i \in 1..(Len(h) - 2) :
                 /\ h[i] = flip(seg[3])
                 /\ h[i + 1] = flip(seg[2])
                 /\ h[i + 2] = flip(seg[1])

(***************************************************************************)
(* C8.  apply_orientation of a reverse handle of node X keeps every path's *)
(* steps in number and order; a step on X holds the flipped handle and     *)
(* reads the same sequence as before, every other step holds the same      *)
(* handle as before.                                                       *)
(***************************************************************************)
C8_PathsSurviveReorientation ==
    [][ last'.op = "apply_orientation" =>
          /\ DOMAIN paths' = DOMAIN paths
          /\ \A p \in DOMAIN paths :
                LET before == PathHandles(World, p)
                    after == PathHandles(WorldNext, p)
                IN  /\ Len(after) = Len(before)
                    /\ paths'[p].count = paths[p].count
                    /\ \A i \in DOMAIN before :
                          IF get_id(before[i]) = get_id(last'.a)
                          THEN /\ after[i] = flip(before[i])
                               /\ get_sequence(graph', after[i])
                                    = get_sequence(graph, before[i])
                          ELSE after[i] = before[i] ]_vars

\* the re-oriented node is on a path, next to a step on another node
C8_Witness ==
    /\ last.op = "apply_orientation"
    /\ \E p \in DOMAIN paths :
          LET h == PathHandles(World, p)
          IN  /\ \E i \in DOMAIN h : get_id(h[i]) = get_id(last.a)
              /\ \E i \in DOMAIN h : get_id(h[i]) # get_id(last.a)

(***************************************************************************)
(* C1.  Edge reciprocity: every entry T of the right (left) vector of a    *)
(* node X is matched, with the same multiplicity, by the reverse (forward) *)
(* handle of X in the left vector of T's node if T is forward and in its   *)
(* right vector if T is reverse.  A reversing self-loop on one side of one *)
(* node is its own match, so it is stored once.                            *)
(***************************************************************************)
C1_EdgeReciprocity ==
    \A id \in DOMAIN graph : \A side \in { "left", "right" } :
        \A target \in Range(EdgeList(graph, id, side)) :
            /\ get_id(target) \in DOMAIN graph
            /\ Count(EdgeList(graph, id, side), target)
                 = Count(EdgeList(graph, get_id(target), BwdSide(target)),
                         get_handle(id, side = "right"))

(***************************************************************************)
(* C3.  divide_handle(h, o1 < ... < ok) returns k+1 handles whose          *)
(* sequences are, in order, the pieces [0,o1), [o1,o2), ..., [ok,length)   *)
(* of get_sequence(h) as it was before the call.                           *)
(***************************************************************************)
C3_SplitPieces ==
    [][ last'.op = "divide_handle" =>
          LET whole == get_sequence(graph, last'.a)
              offs == last'.offs
              k == Len(offs)
              Piece(i) == SubSeq(whole,
                                 (IF i = 1 THEN 0 ELSE offs[i - 1]) + 1,
                                 IF i = k + 1 THEN Len(whole) ELSE offs[i])
          IN  /\ Len(last'.ret) = k + 1
              /\ \A i \in 1..(k + 1) :
                    /\ get_id(last'.ret[i]) \in DOMAIN graph'
                    /\ get_sequence(graph', last'.ret[i]) = Piece(i) ]_vars

(***************************************************************************)
(* C5.  After divide_handle of X into S0..Sk: the edges of the right side  *)
(* of X are on the right side of Sk, and every back-reference to the right *)
(* side of X, on any node and on X itself, names Sk; the left side of S0   *)
(* keeps its edges; Si and Si+1 are joined by exactly one edge; the        *)
(* segments carry no other edges.                                          *)
(***************************************************************************)
\* a vector with every reference to the right side of X renamed to Sk
Retargeted(list, segments) ==
    [ i \in 1..Len(list) |->
        IF list[i] = flip(segments[1])
        THEN flip(segments[Len(segments)])
        ELSE list[i] ]

C5_EdgesAfterSplit ==
    [][ last'.op = "divide_handle" =>
          LET seg == SegmentsOf(last')
              n == Len(seg)
              x == get_id(seg[1])
          IN  /\ Multiset(graph'[get_id(seg[n])].right_edges)
                   = Multiset(Retargeted(graph[x].right_edges, seg))
              /\ Multiset(graph'[x].left_edges)
                   = Multiset(Retargeted(graph[x].left_edges, seg))
              /\ \A id \in DOMAIN graph \ {x} :
                    /\ Multiset(graph'[id].left_edges)
                         = Multiset(Retargeted(graph[id].left_edges, seg))
                    /\ Multiset(graph'[id].right_edges)
                         = Multiset(Retargeted(graph[id].right_edges, seg))
              /\ \A i \in 1..(n - 1) :
                    /\ graph'[get_id(seg[i])].right_edges = <<seg[i + 1]>>
                    /\ graph'[get_id(seg[i + 1])].left_edges = <<flip(seg[i])>>
        ]_vars

(***************************************************************************)
(* C6.  apply_orientation(h) of a reverse handle h of X, returning r,      *)
(* keeps what traversal sees: follow_edges(r, d) visits afterwards what    *)
(* follow_edges(h, d) visited before, and follow_edges(g, d) of a handle g *)
(* of another node visits what it visited before, as multisets and with    *)
(* every handle of X flipped.                                              *)
(***************************************************************************)
\* a vector with every handle of node id flipped
FlipNode(list, id) ==
    [ i \in 1..Len(list) |->
        IF get_id(list[i]) = id THEN flip(list[i]) ELSE list[i] ]

C6_ReorientationKeepsTopology ==
    [][ last'.op = "apply_orientation" =>
          LET h == last'.a
              r == last'.ret[1]
              x == get_id(h)
          IN  \A d \in BOOLEAN :
                 /\ Multiset(follow_edges(graph', r, d))
                      = Multiset(FlipNode(follow_edges(graph, h, d), x))
                 /\ \A g \in LiveHandles :
                       get_id(g) # x =>
                          Multiset(follow_edges(graph', g, d))
                            = Multiset(FlipNode(follow_edges(graph, g, d), x))
        ]_vars

(***************************************************************************)
(* C7.  Re-orienting a node and re-orienting it back returns the forward   *)
(* handle h it started from and restores the node's sequence, what         *)
(* follow_edges visits from every handle in both directions (as            *)
(* multisets), and the handle of every step of every path.                 *)
(***************************************************************************)
C7_OrientationRoundTrip ==
    [][ last'.op = "apply_orientation" =>
          LET h == flip(last'.a)
              back == apply_orientation(WorldNext, flip(last'.ret[1]))
          IN  /\ apply_orientation_result(flip(last'.ret[1])) = h
              /\ back.graph[get_id(h)].sequence = graph[get_id(h)].sequence
              /\ \A g \in LiveHandles : \A d \in BOOLEAN :
                    Multiset(follow_edges(back.graph, g, d))
                      = Multiset(follow_edges(graph, g, d))
              /\ \A p \in DOMAIN paths :
                    PathHandles(back, p) = PathHandles(World, p) ]_vars

(***************************************************************************)
(* C10.  destroy_handle(h) removes the node and its edges and nothing      *)
(* else: the node is gone and node_size is one less, no edge vector holds  *)
(* an entry with the id of h, and every other node keeps its sequence and  *)
(* the entries that did not refer to the destroyed node (as multisets).    *)
(***************************************************************************)
\* the entries of a vector that do not refer to node id
Without(list, id) == SelectSeq(list, LAMBDA e : get_id(e) # id)

C10_DestroyHandleExact ==
    [][ last'.op = "destroy_handle" =>
          LET x == get_id(last'.a)
          IN  /\ x \notin DOMAIN graph'
              /\ Cardinality(DOMAIN graph') = Cardinality(DOMAIN graph) - 1
              /\ \A id \in DOMAIN graph' :
                    /\ Without(graph'[id].left_edges, x) = graph'[id].left_edges
                    /\ Without(graph'[id].right_edges, x) = graph'[id].right_edges
              /\ \A id \in DOMAIN graph \ {x} :
                    /\ id \in DOMAIN graph'
                    /\ graph'[id].sequence = graph[id].sequence
                    /\ Multiset(graph'[id].left_edges)
                         = Multiset(Without(graph[id].left_edges, x))
                    /\ Multiset(graph'[id].right_edges)
                         = Multiset(Without(graph[id].right_edges, x)) ]_vars

(***************************************************************************)
(* C14.  follow_edges stops early, exactly: the iteratee is called on the  *)
(* entries of the selected edge list one at a time in stored order (as     *)
(* seen from the handle), never again after a call that returned false,    *)
(* and follow_edges returns false if and only if some call returned false, *)
(* having gone through the whole list when it returns true.                *)
(***************************************************************************)
C14_FollowEdgesEarlyStop ==
    frame.op = "follow_edges" =>
        LET edge_list == follow_edges(graph, frame.handle, frame.go_left)
            n == Len(frame.invoked)
        IN  /\ n <= Len(edge_list)
            /\ frame.invoked = SubSeq(edge_list, 1, n)
            /\ Len(frame.answers) = n
            /\ \A i \in 1..(n - 1) : frame.answers[i]
            /\ frame.pc = "done" =>
                   /\ frame.ret = (\A i \in 1..n : frame.answers[i])
                   /\ frame.ret => n = Len(edge_list)

\* follow_edges has returned false with entries of the list left unvisited
C14_Witness ==
    ~ ( /\ frame.op = "follow_edges"
        /\ frame.pc = "done"
        /\ frame.ret = FALSE
        /\ Len(frame.invoked) >= 1
        /\ Len(frame.invoked)
             < Len(follow_edges(graph, frame.handle, frame.go_left)) )

(***************************************************************************)
(* C15.  A false result does not cancel a parallel for_each_handle: when   *)
(* it has returned, the iteratee has been called exactly once for every    *)
(* live node, whatever the calls returned.                                 *)
(***************************************************************************)
C15_ParallelVisitsEveryNode ==
    ( /\ frame.op = "for_each_handle"
      /\ frame.parallel
      /\ frame.pc = "done" ) =>
        \A id \in DOMAIN graph :
            Count(frame.invoked, get_handle(id, FALSE)) = 1

(***************************************************************************)
(* C16.  Parallel for_each_handle returns the logical AND of the results:  *)
(* the value returned is false if and only if a call of the iteratee that  *)
(* ran returned false, however the tasks' updates of the flag interleave.  *)
(***************************************************************************)
C16_ParallelResultIsAnd ==
    ( /\ frame.op = "for_each_handle"
      /\ frame.parallel
      /\ frame.pc = "done" ) =>
        frame.ret = (\A i \in DOMAIN frame.answers : frame.answers[i])

\* a parallel iteration has returned false after a call that returned false
\* was followed by calls that returned true
C16_Witness ==
    ~ ( /\ frame.op = "for_each_handle"
        /\ frame.parallel
        /\ frame.pc = "done"
        /\ frame.ret = FALSE
        /\ Len(frame.answers) >= 3
        /\ frame.answers[1] = FALSE
        /\ frame.answers[Len(frame.answers)] = TRUE )

(***************************************************************************)
(* C11.  destroy_edge removes exactly one edge: in a state in which every  *)
(* entry has its match, destroy_edge(h1, h2) of a stored edge leaves that  *)
(* edge, in either of its two readings and seen from either end, with a    *)
(* multiplicity one less than before, and every other edge with the        *)
(* multiplicity it had; reversing self-loops h2 = flip(h1) included.       *)
(***************************************************************************)
C11_DestroyEdgeRemovesOne ==
    [][ ( /\ calls' = calls + 1
          /\ last'.op = "destroy_edge"
          /\ C1_EdgeReciprocity ) =>
            LET h1 == last'.a
                h2 == last'.b
                removed(a, b) ==
                    IF <<a, b>> = <<h1, h2>> \/ <<a, b>> = <<flip(h2), flip(h1)>>
                    THEN 1 ELSE 0
            IN  \A a, b \in LiveHandles :
                    /\ Count(follow_edges(graph', a, FALSE), b)
                         = Count(follow_edges(graph, a, FALSE), b) - removed(a, b)
                    /\ Count(follow_edges(graph', b, TRUE), a)
                         = Count(follow_edges(graph, b, TRUE), a) - removed(a, b)
      ]_vars

(***************************************************************************)
(* C12.  A reversing self-loop on one side of a node is stored once:       *)
(* create_edge(h, flip(h)) adds exactly one entry to the node's two edge   *)
(* lists taken together, follow_edges(h, false) visits flip(h) once more   *)
(* than before and follow_edges(flip(h), true) visits h once more.         *)
(***************************************************************************)
C12_ReversingSelfLoopStoredOnce ==
    [][ ( /\ calls' = calls + 1
          /\ last'.op = "create_edge"
          /\ last'.b = flip(last'.a) ) =>
            LET h == last'.a
                id == get_id(h)
            IN  /\ EdgeEntries(graph', { id }) = EdgeEntries(graph, { id }) + 1
                /\ Count(follow_edges(graph', h, FALSE), flip(h))
                     = Count(follow_edges(graph, h, FALSE), flip(h)) + 1
                /\ Count(follow_edges(graph', flip(h), TRUE), h)
                     = Count(follow_edges(graph, flip(h), TRUE), h) + 1
      ]_vars

\* create_edge(h, flip(h)) has just added a second reversing self-loop to
\* the left side of a node
C12_Witness ==
    ~ ( /\ last.op = "create_edge"
        /\ last.b = flip(last.a)
        /\ get_is_reverse(last.a)
        /\ Count(follow_edges(graph, last.a, FALSE), last.b) = 2 )

(***************************************************************************)
(* C13.  Edge symmetry after creation: for a # flip(b), create_edge(a, b)  *)
(* makes follow_edges(a, false) visit b, follow_edges(b, true) visit a,    *)
(* follow_edges(flip(b), false) visit flip(a) and follow_edges(flip(a),    *)
(* true) visit flip(b) once more than before each, and changes no other    *)
(* result of follow_edges.                                                 *)
(***************************************************************************)
C13_EdgeSymmetry ==
    [][ ( /\ calls' = calls + 1
          /\ last'.op = "create_edge"
          /\ last'.a # flip(last'.b) ) =>
            LET a == last'.a
                b == last'.b
                \* what a reading gains: at most one visit, as a # flip(b)
                added(x, go_left) ==
                    { y \in { a, b, flip(a), flip(b) } :
                        <<x, go_left, y>> \in { <<a, FALSE, b>>,
                                                <<b, TRUE, a>>,
                                                <<flip(b), FALSE, flip(a)>>,
                                                <<flip(a), TRUE, flip(b)>> } }
            IN  \A x \in LiveHandles, go_left \in BOOLEAN :
                    LET before == follow_edges(graph, x, go_left)
                        after == follow_edges(graph', x, go_left)
                    IN  IF added(x, go_left) = {}
                        THEN after = before
                        ELSE /\ Cardinality(added(x, go_left)) = 1
                             /\ Len(after) = Len(before) + 1
                             /\ \A y \in Range(after) :
                                    Count(after, y)
                                      = Count(before, y)
                                          + (IF y \in added(x, go_left)
                                             THEN 1 ELSE 0)
      ]_vars

\* create_edge has just joined the left side of one node to the left side
\* of another one
C13_Witness ==
    ~ ( /\ last.op = "create_edge"
        /\ get_id(last.a) # get_id(last.b)
        /\ get_is_reverse(last.a)
        /\ ~get_is_reverse(last.b)
        /\ Count(follow_edges(graph, last.b, TRUE), last.a) = 1
        /\ Count(follow_edges(graph, flip(last.a), TRUE), flip(last.b)) = 1 )

\* the largest and the smallest element of a non-empty set of ids
Largest(S) == CHOOSE x \in S : \A y \in S : y <= x

Smallest(S) == CHOOSE x \in S : \A y \in S : x <= y

(***************************************************************************)
(* C17.  The shape of a split: divide_handle(h, offsets) with k >= 1       *)
(* offsets returns k+1 handles in the orientation of h; the segment that   *)
(* is leftmost in forward coordinates (it keeps a prefix of the forward    *)
(* sequence) has the id of h and is returned first when h is forward and   *)
(* last when h is reverse; the other k handles have pairwise distinct ids  *)
(* that were not live before the call; the node count grows by exactly k.  *)
(***************************************************************************)
C17_SplitResultShape ==
    [][ ( /\ calls' = calls + 1
          /\ last'.op = "divide_handle"
          /\ Len(last'.offs) >= 1 ) =>
            LET h == last'.a
                k == Len(last'.offs)
                ret == last'.ret
                keeper == IF get_is_reverse(h) THEN k + 1 ELSE 1
                fresh == { get_id(ret[i]) : i \in (1..(k + 1)) \ { keeper } }
                kept == graph'[get_id(h)].sequence
            IN  /\ Len(ret) = k + 1
                /\ \A i \in 1..(k + 1) :
                       get_is_reverse(ret[i]) = get_is_reverse(h)
                /\ ret[keeper] = h
                /\ Cardinality(fresh) = k
                /\ fresh \cap DOMAIN graph = {}
                /\ DOMAIN graph' = DOMAIN graph \cup fresh
                /\ Cardinality(DOMAIN graph') = Cardinality(DOMAIN graph) + k
                /\ kept = SubSeq(graph[get_id(h)].sequence, 1, Len(kept))
      ]_vars

\* a reverse handle has just been divided at two offsets
C17_Witness ==
    ~ ( /\ last.op = "divide_handle"
        /\ get_is_reverse(last.a)
        /\ Len(last.offs) = 2
        /\ Len(last.ret) = 3
        /\ last.ret[3] = last.a
        /\ Cardinality(DOMAIN graph) = 3 )

(***************************************************************************)
(* C18.  Splitting with no offsets is a no-op: divide_handle(h, []) on a   *)
(* handle of a live node in either orientation returns the one-element     *)
(* list holding h itself and leaves nodes, sequences, edges, paths and the *)
(* occurrence index unchanged.                                             *)
(***************************************************************************)
C18_SplitWithoutOffsets ==
    [][ ( /\ calls' = calls + 1
          /\ last'.op = "divide_handle"
          /\ last'.offs = <<>> ) =>
            /\ last'.ret = << last'.a >>
            /\ UNCHANGED object
      ]_vars

(***************************************************************************)
(* C19, as claimed.  create_handle(sequence) without an id, called with at *)
(* least one live node, creates the node whose id is one past the largest  *)
(* live id, also after destroy_handle calls.                               *)
(***************************************************************************)
C19_IdOnePastMaximumLive ==
    [][ ( /\ calls' = calls + 1
          /\ last'.op = "create_handle"
          /\ DOMAIN graph # {} ) =>
            /\ get_id(last'.ret[1]) = Largest(DOMAIN graph) + 1
            /\ DOMAIN graph' = DOMAIN graph \cup { Largest(DOMAIN graph) + 1 }
      ]_vars

(***************************************************************************)
(* C19, amended.  create_handle(sequence) without an id, called with at    *)
(* least one live node, creates the node whose id is one past              *)
(* max_node_id(), the largest id created since the last clear: an id       *)
(* above every live id, and one past the largest live id as long as the    *)
(* node with the largest id created has not been destroyed.                *)
(***************************************************************************)
C19_IdOnePastMaxNodeId ==
    [][ ( /\ calls' = calls + 1
          /\ last'.op = "create_handle"
          /\ DOMAIN graph # {} ) =>
            LET id == get_id(last'.ret[1])
            IN  /\ id = max_id + 1
                /\ last'.ret[1] = get_handle(id, FALSE)
                /\ DOMAIN graph' = DOMAIN graph \cup { id }
                /\ \A live \in DOMAIN graph : live < id
                /\ max_id \in DOMAIN graph => id = Largest(DOMAIN graph) + 1
      ]_vars

\* create_handle(sequence) has just created a node whose id is more than
\* one past the ids of the other live nodes
C19_Witness ==
    ~ ( /\ last.op = "create_handle"
        /\ Cardinality(DOMAIN graph) >= 2
        /\ get_id(last.ret[1]) \in DOMAIN graph
        /\ \A live \in DOMAIN graph \ { get_id(last.ret[1]) } :
               live + 1 < get_id(last.ret[1]) )

(***************************************************************************)
(* C20.  The id bounds are tracked incrementally: a default-constructed or *)
(* cleared graph has the reset bounds; every call other than clear leaves  *)
(* max_node_id() the larger of its old value and the ids of the nodes the  *)
(* call created, and min_node_id() the smaller, so a call that creates no  *)
(* node (destroy_handle, apply_orientation, the path operations) leaves    *)
(* them as they are; and they are the largest and smallest live id for as  *)
(* long as no node is destroyed.                                           *)
(***************************************************************************)
BoundsReset == max_id = clear.max_id /\ min_id = clear.min_id

BoundsTight ==
    IF DOMAIN graph = {} THEN BoundsReset
    ELSE max_id = Largest(DOMAIN graph) /\ min_id = Smallest(DOMAIN graph)

C21_DuplicateIdRejected ==
    [][ ( /\ calls' = calls + 1
          /\ last'.op = "create_handle_id"
          /\ last'.a \in DOMAIN graph ) =>
            /\ last'.ret = <<>>
            /\ graph' = graph
            /\ max_id' = max_id
            /\ min_id' = min_id
      ]_vars

(***************************************************************************)
(* C22.  create_path_handle(name) with a registered name fails with        *)
(* DuplicatePathName: it returns no path handle and changes nothing, the   *)
(* path count is what it was and the name still leads to the existing      *)
(* path with its steps.                                                    *)
(***************************************************************************)
C22_DuplicatePathNameRejected ==
    [][ ( /\ calls' = calls + 1
          /\ last'.op = "create_path_handle"
          \* the call registered no new name: its name was taken
          /\ DOMAIN path_id' = DOMAIN path_id ) =>
            /\ last'.ret = <<>>
            /\ Cardinality(DOMAIN paths') = Cardinality(DOMAIN paths)
            /\ \A name \in DOMAIN path_id :
                   /\ path_id'[name] = path_id[name]
                   /\ path_id'[name] \in DOMAIN paths'
                   /\ PathHandles(WorldNext, path_id'[name])
                        = PathHandles(World, path_id[name])
            /\ UNCHANGED object
      ]_vars

(***************************************************************************)
(* C23.  divide_handle with offsets that are not strictly increasing fails *)
(* with InvalidArgument and mutates nothing: it returns no handles, no     *)
(* node is created, and no sequence, edge list, path step or occurrence    *)
(* bucket differs from before the call.                                    *)
(***************************************************************************)
C23_UnorderedOffsetsRejected ==
    [][ ( /\ calls' = calls + 1
          /\ last'.op = "divide_handle"
          /\ \E i \in 1..(Len(last'.offs) - 1) :
                 last'.offs[i] >= last'.offs[i + 1] ) =>
            /\ last'.ret = <<>>
            /\ UNCHANGED object
      ]_vars

(***************************************************************************)
(* C24.  An edit that names a node that is not live (create_edge,          *)
(* destroy_edge, destroy_handle, apply_orientation) fails with NotFound    *)
(* and leaves the live nodes, the edge lists, the paths and the occurrence *)
(* index exactly as they were: no node record is created on the side.      *)
(***************************************************************************)
C24_AbsentNodeRejected ==
    [][ ( /\ calls' = calls + 1
          /\ last'.op \in { "create_edge", "destroy_edge", "destroy_handle",
                            "apply_orientation" }
          /\ \/ get_id(last'.a) \notin DOMAIN graph
             \/ /\ last'.op \in { "create_edge", "destroy_edge" }
                /\ get_id(last'.b) \notin DOMAIN graph ) =>
            /\ last'.ret = <<>>
            /\ UNCHANGED object
      ]_vars

\* C25: a load of the stream serialize wrote for a graph leaves the object
\* with that graph's max_id, min_id and next_path_id, the same nodes with the
\* same sequence and the same left and right edge lists in order, and the same
\* paths with the same id, name, step count and step handles in order,
\* whatever the object held before
C25_RoundTrip ==
    [][ (calls' = calls + 1 /\ last'.op = "deserialize"
         /\ last'.a \in 0..Len(SavedGraphs))
        => LET G == Written(last'.a)
               L == WorldNext
           IN  /\ L.max_id = G.max_id
               /\ L.min_id = G.min_id
               /\ L.next_path_id = G.next_path_id
               /\ DOMAIN L.graph = DOMAIN G.graph
               /\ \A id \in DOMAIN G.graph :
                      /\ L.graph[id].sequence = G.graph[id].sequence
                      /\ L.graph[id].left_edges = G.graph[id].left_edges
                      /\ L.graph[id].right_edges = G.graph[id].right_edges
               /\ DOMAIN L.paths = DOMAIN G.paths
               /\ L.path_id = G.path_id
               /\ \A p \in DOMAIN G.paths :
                      /\ L.paths[p].path_id = G.paths[p].path_id
                      /\ L.paths[p].name = G.paths[p].name
                      /\ L.paths[p].count = G.paths[p].count
                      /\ PathHandles(L, p) = PathHandles(G, p)
      ]_vars

\* a saved graph has been loaded over a graph that held other nodes and paths
C25_Witness ==
    ~ ( /\ last.op = "deserialize"
        /\ last.a = 1
        /\ calls >= 4
        /\ DOMAIN graph = { 2, 3 }
        /\ \E p \in DOMAIN paths : paths[p].count = 2 )

\* the object's own stream has been loaded back with edges and path steps
C25_WitnessOwn ==
    ~ ( /\ last.op = "deserialize"
        /\ last.a = 0
        /\ \E id \in DOMAIN graph : graph[id].right_edges # <<>>
        /\ \E p \in DOMAIN paths : paths[p].count >= 1 )

(***************************************************************************)
(* C26.  A load of a stream that ends before every announced field has     *)
(* been read fails as a whole with CorruptData: it does not return with a  *)
(* partially filled graph, so the object is afterwards what it was before  *)
(* the load or the empty graph clear() leaves.                             *)
(***************************************************************************)
C26_TruncatedLoadAborts ==
    [][ ( /\ calls' = calls + 1
          /\ last'.op = "deserialize_truncated" ) =>
            \/ UNCHANGED object
            \/ WorldNext = clear
      ]_vars

\* the bucket of a node id in world w
BucketOf(w, id) == IF id \in DOMAIN w.occurrences THEN w.occurrences[id] ELSE <<>>

(***************************************************************************)
(* C27.  destroy_path(p) removes exactly path p: its name is no longer     *)
(* registered, the path count has dropped by one, p is no longer among the *)
(* paths, no bucket holds a step of p, and every other path keeps its      *)
(* name, its steps in order and the index entry of each of its steps.      *)
(***************************************************************************)
C27_DestroyPathExact ==
    [][ ( /\ calls' = calls + 1
          /\ last'.op = "destroy_path"
          /\ last'.a \in DOMAIN paths ) =>
            LET p == last'.a
                gone == Range(PathMappings(World, p))
            IN  /\ paths[p].name \notin DOMAIN path_id'
                /\ Cardinality(DOMAIN paths') = Cardinality(DOMAIN paths) - 1
                /\ p \notin DOMAIN paths'
                /\ \A id \in DOMAIN occurrences' :
                       Range(occurrences'[id]) \cap gone = {}
                /\ \A q \in DOMAIN paths \ {p} :
                       /\ q \in DOMAIN paths'
                       /\ paths'[q].name = paths[q].name
                       /\ paths'[q].name \in DOMAIN path_id'
                       /\ path_id'[paths'[q].name] = q
                       /\ paths'[q].count = paths[q].count
                       /\ PathMappings(WorldNext, q) = PathMappings(World, q)
                       /\ PathHandles(WorldNext, q) = PathHandles(World, q)
                       /\ \A a \in Range(PathMappings(World, q)) :
                              LET id == get_id(mappings[a].handle)
                              IN  /\ Count(BucketOf(World, id), a) = 1
                                  /\ Count(BucketOf(WorldNext, id), a) = 1
      ]_vars

\* a path has been destroyed whose step was allocated before a step that
\* another path still holds and that is still in its bucket
C27_Witness ==
    ~ ( /\ last.op = "destroy_path"
        /\ last.a \notin DOMAIN paths
        /\ \E q \in DOMAIN paths :
              \E a \in Range(PathMappings(World, q)) :
                  /\ \E b \in 1..(a - 1) : b \notin DOMAIN mappings
                  /\ a \in Range(Bucket(get_id(mappings[a].handle))) )

(***************************************************************************)
(* C28.  append_occurrence(p, h) appends at the tail: the step count of p  *)
(* grows by one, the last step of p is the returned step and holds h, the  *)
(* earlier steps of p are the same records with the same handles in the    *)
(* same order, the returned step is in the bucket of the node id of h, and *)
(* every other path keeps its steps.                                       *)
(***************************************************************************)
C28_AppendAtTail ==
    [][ ( /\ calls' = calls + 1
          /\ last'.op = "append_occurrence"
          /\ last'.a \in DOMAIN paths ) =>
            LET p == last'.a
                h == last'.b
                step == last'.ret[1]
            IN  /\ paths'[p].count = paths[p].count + 1
                /\ paths'[p].tail = step
                /\ mappings'[step].handle = h
                /\ mappings'[step].path_id = p
                /\ mappings'[step].next = nullptr
                /\ PathMappings(WorldNext, p)
                     = Append(PathMappings(World, p), step)
                /\ PathHandles(WorldNext, p) = Append(PathHandles(World, p), h)
                /\ ChainBack(mappings', step, Cardinality(DOMAIN mappings'))
                     = Reverse(PathMappings(WorldNext, p))
                /\ Count(BucketOf(WorldNext, get_id(h)), step) = 1
                /\ DOMAIN paths' = DOMAIN paths
                /\ path_id' = path_id
                /\ \A q \in DOMAIN paths \ {p} :
                       /\ paths'[q] = paths[q]
                       /\ PathMappings(WorldNext, q) = PathMappings(World, q)
                       /\ PathHandles(WorldNext, q) = PathHandles(World, q)
      ]_vars

\* a step has been appended to a path that had steps, with another path
\* holding steps too
C28_Witness ==
    ~ ( /\ last.op = "append_occurrence"
        /\ last.a \in DOMAIN paths
        /\ paths[last.a].count >= 2
        /\ paths[last.a].tail = last.ret[1]
        /\ \E q \in DOMAIN paths \ {last.a} : paths[q].count >= 1 )

\* the occurrence handles a call visits when no visitor answers false
VisitedOn(handle) ==
    occurrence_handles(mappings, occurrences_find(occurrences, handle))

(***************************************************************************)
(* C29.  for_each_occurrence_on_handle ignores the orientation of the      *)
(* handle: the steps it has visited and has yet to visit are those a call  *)
(* with the flipped handle visits, namely once each step of a live path    *)
(* whose handle has the node id of the handle, each reported with its own  *)
(* path; only the last answer can be false, nothing is visited after it,   *)
(* and it is the result.                                                   *)
(***************************************************************************)
C29_OccurrencesOnHandle ==
    frame.op = "for_each_occurrence_on_handle" =>
        LET all == frame.invoked \o frame.todo
            n == Len(frame.invoked)
        IN  /\ all = VisitedOn(flip(frame.handle))
            /\ all = VisitedOn(forward(frame.handle))
            /\ \A i, j \in 1..Len(all) : i # j => all[i][2] # all[j][2]
            /\ { all[i][2] : i \in 1..Len(all) }
                 = { a \in LiveSteps :
                       get_id(mappings[a].handle) = get_id(frame.handle) }
            /\ \A i \in 1..Len(all) :
                   /\ all[i][1] \in DOMAIN paths
                   /\ all[i][2] \in Range(PathMappings(World, all[i][1]))
            /\ Len(frame.answers) = n
            /\ \A i \in 1..(n - 1) : frame.answers[i]
            /\ frame.keep_going = (n = 0 \/ frame.answers[n])
            /\ frame.pc = "done" =>
                   /\ frame.ret = (\A i \in 1..n : frame.answers[i])
                   /\ frame.ret => frame.todo = <<>>

\* a call with a reverse handle has visited two steps of different paths,
\* one of them stored in forward orientation, and returned true
C29_Witness ==
    ~ ( /\ frame.op = "for_each_occurrence_on_handle"
        /\ frame.pc = "done"
        /\ frame.ret
        /\ get_is_reverse(frame.handle)
        /\ Len(frame.invoked) >= 2
        /\ \E i, j \in 1..Len(frame.invoked) :
              /\ frame.invoked[i][1] # frame.invoked[j][1]
              /\ ~get_is_reverse(mappings[frame.invoked[i][2]].handle) )

\* a call has stopped at a visitor's false with steps left unvisited
C29_WitnessStopped ==
    ~ ( /\ frame.op = "for_each_occurrence_on_handle"
        /\ frame.pc = "done"
        /\ ~frame.ret
        /\ frame.todo # <<>> )

(***************************************************************************)
(* C30.  create_edge is not idempotent: every call create_edge(a, b) on    *)
(* live handles, like every call create_edge(flip(b), flip(a)), makes      *)
(* follow_edges(a, false) visit b once more than before and raises         *)
(* get_degree(a, false) by one, and leaves the number of visits of every   *)
(* other edge as it was; so n calls make n visits.                         *)
(***************************************************************************)
C30_Multigraph ==
    [][ ( /\ calls' = calls + 1
          /\ last'.op = "create_edge"
          /\ get_id(last'.a) \in DOMAIN graph
          /\ get_id(last'.b) \in DOMAIN graph ) =>
            LET same == { << last'.a, last'.b >>,
                          << flip(last'.b), flip(last'.a) >> }
            IN  /\ DOMAIN graph' = DOMAIN graph
                /\ \A a \in LiveHandles, b \in LiveHandles :
                       Count(follow_edges(graph', a, FALSE), b)
                         = Count(follow_edges(graph, a, FALSE), b)
                           + (IF << a, b >> \in same THEN 1 ELSE 0)
                /\ \A a \in LiveHandles :
                       get_degree(graph', a, FALSE)
                         = get_degree(graph, a, FALSE)
                           + (IF \E e \in same : e[1] = a THEN 1 ELSE 0)
      ]_vars

\* an edge between two nodes has been created a second time and is visited
\* twice from either end
C30_Witness ==
    ~ ( /\ last.op = "create_edge"
        /\ get_id(last.a) \in DOMAIN graph
        /\ get_id(last.b) \in DOMAIN graph
        /\ get_id(last.a) # get_id(last.b)
        /\ Count(follow_edges(graph, last.a, FALSE), last.b) = 2
        /\ get_degree(graph, last.a, FALSE) = 2
        /\ Count(follow_edges(graph, flip(last.b), FALSE), flip(last.a)) = 2 )

(***************************************************************************)
(* C31.  destroy_edge(h1, h2) for handles of live nodes between which no   *)
(* edge is stored is a silent no-op: it returns normally and every edge    *)
(* list, node, path and bucket is as before.                               *)
(***************************************************************************)
C31_DestroyAbsentEdgeNoOp ==
    [][ ( /\ calls' = calls + 1
          /\ last'.op = "destroy_edge"
          /\ get_id(last'.a) \in DOMAIN graph
          /\ get_id(last'.b) \in DOMAIN graph
          /\ last'.b \notin Range(follow_edges(graph, last'.a, FALSE)) ) =>
            /\ last'.ret = <<>>
            /\ UNCHANGED object
      ]_vars

\* an edge that is not stored has been deleted from a node that has other
\* edges on the same side, in a graph with a path step
C31_Witness ==
    ~ ( /\ last.op = "destroy_edge"
        /\ get_id(last.a) \in DOMAIN graph
        /\ get_id(last.b) \in DOMAIN graph
        /\ last.b \notin Range(follow_edges(graph, last.a, FALSE))
        /\ follow_edges(graph, last.a, FALSE) # <<>>
        /\ follow_edges(graph, last.b, TRUE) # <<>>
        /\ mappings # <<>> )

(***************************************************************************)
(* C32.  apply_orientation makes the given reading the forward one: for a  *)
(* handle h of a live node the returned handle r is forward and has the id *)
(* of h, get_sequence(r) after the call is get_sequence(h) before it, and  *)
(* the node count is the same; for a forward h, r = h and the graph, the   *)
(* paths and the index are unchanged.                                      *)
(***************************************************************************)
C32_ApplyOrientation ==
    [][ ( /\ calls' = calls + 1
          /\ last'.op = "apply_orientation"
          /\ get_id(last'.a) \in DOMAIN graph ) =>
            LET h == last'.a
                r == last'.ret[1]
            IN  /\ ~get_is_reverse(r)
                /\ get_id(r) = get_id(h)
                /\ get_id(r) \in DOMAIN graph'
                /\ get_sequence(graph', r) = get_sequence(graph, h)
                /\ Cardinality(DOMAIN graph') = Cardinality(DOMAIN graph)
                /\ ~get_is_reverse(h) => (r = h /\ UNCHANGED object)
      ]_vars

\* a reverse handle of a node whose sequence is not its own reverse
\* complement has been made the forward one
C32_Witness ==
    ~ ( /\ last.op = "apply_orientation"
        /\ get_is_reverse(last.a)
        /\ get_id(last.a) \in DOMAIN graph
        /\ get_sequence(graph, last.ret[1])
             # get_sequence(graph, flip(last.ret[1])) )

\* apply_orientation has been called with a forward handle of a node with
\* an edge and a path step
C32_WitnessForward ==
    ~ ( /\ last.op = "apply_orientation"
        /\ ~get_is_reverse(last.a)
        /\ get_id(last.a) \in DOMAIN graph
        /\ graph[get_id(last.a)].right_edges # <<>>
        /\ Bucket(get_id(last.a)) # <<>> )

(***************************************************************************)
(* C33.  Sequence reading depends only on orientation: after every call,   *)
(* for every handle h of a live node, get_sequence(flip(h)) is the reverse *)
(* complement of get_sequence(h) and get_length(flip(h)) = get_length(h)   *)
(* = the length of get_sequence(h); and the forward handle create_handle   *)
(* returns reads the sequence the node was created with.                   *)
(***************************************************************************)
C33_SequenceReading ==
    [][ /\ \A h \in LiveHandles' :
              /\ get_sequence(graph', flip(h))
                   = reverse_complement(get_sequence(graph', h))
              /\ get_length(graph', flip(h)) = get_length(graph', h)
              /\ get_length(graph', h) = Len(get_sequence(graph', h))
        /\ ( /\ calls' = calls + 1
             /\ last'.op = "create_handle_id"
             /\ last'.a \notin DOMAIN graph ) =>
               /\ ~get_is_reverse(last'.ret[1])
               /\ get_sequence(graph', last'.ret[1]) = last'.offs
               /\ get_sequence(graph', flip(last'.ret[1]))
                    = reverse_complement(last'.offs)
      ]_vars

\* a node has been created with a sequence that reads differently in
\* reverse, next to a node that has been turned round
C33_Witness ==
    ~ ( /\ last.op = "create_handle_id"
        /\ last.offs # <<>>
        /\ last.offs # reverse_complement(last.offs)
        /\ get_sequence(graph, last.ret[1]) = last.offs
        /\ \E id \in DOMAIN graph :
              graph[id].sequence \notin SequenceInputs )

(***************************************************************************)
(* C34.  create_handle(sequence, id) with an id that is not live adds      *)
(* exactly one node: the returned handle is get_handle(id), forward, the   *)
(* id is live afterwards, the handle reads the given sequence, the node    *)
(* has no edge on either side, the node count grows by one and every other *)
(* node keeps its sequence and edge lists.                                 *)
(***************************************************************************)
C34_CreateHandleAddsOne ==
    [][ ( /\ calls' = calls + 1
          /\ last'.op = "create_handle_id"
          /\ last'.a \notin DOMAIN graph ) =>
            LET id == last'.a
                r == last'.ret[1]
            IN  /\ r = get_handle(id, FALSE)
                /\ ~get_is_reverse(r)
                /\ get_id(r) = id
                /\ id \in DOMAIN graph'
                /\ get_sequence(graph', r) = last'.offs
                /\ \A go_left \in BOOLEAN :
                       /\ follow_edges(graph', r, go_left) = <<>>
                       /\ follow_edges(graph', flip(r), go_left) = <<>>
                       /\ get_degree(graph', r, go_left) = 0
                /\ Cardinality(DOMAIN graph') = Cardinality(DOMAIN graph) + 1
                /\ DOMAIN graph' = DOMAIN graph \cup { id }
                /\ \A other \in DOMAIN graph : graph'[other] = graph[other]
      ]_vars

\* a node has been created with a sequence next to a node that has an edge
\* and below the largest live id
C34_Witness ==
    ~ ( /\ last.op = "create_handle_id"
        /\ last.a \in DOMAIN graph
        /\ graph[last.a].sequence = last.offs
        /\ last.offs # <<>>
        /\ last.a < max_id
        /\ \E other \in DOMAIN graph \ { last.a } :
              graph[other].right_edges # <<>> )

(***************************************************************************)
(* C35.  create_path_handle(name) with a name that is not registered       *)
(* creates one empty path with a handle of its own: the handle is the      *)
(* value of next_path_id, which only clear lowers, so it differs from      *)
(* every handle returned since the last clear, those of destroyed paths    *)
(* included; the path has no step, the name is registered and leads to the *)
(* handle, the path has the name, the path count grows by one, and no      *)
(* other path, step, bucket or node changes.                               *)
(***************************************************************************)
C35_CreatePathHandleUnique ==
    [][ /\ (calls' = calls + 1 /\ last'.op # "clear")
             => next_path_id' >= next_path_id
        /\ \A p \in DOMAIN paths' : p < next_path_id'
        /\ ( /\ calls' = calls + 1
             /\ last'.op = "create_path_handle"
             /\ last'.offs \notin DOMAIN path_id ) =>
               LET name == last'.offs
                   r == last'.ret[1]
               IN  /\ r = next_path_id
                   /\ next_path_id' > r
                   /\ r \notin DOMAIN paths
                   /\ DOMAIN paths' = DOMAIN paths \cup { r }
                   /\ Cardinality(DOMAIN paths') = Cardinality(DOMAIN paths) + 1
                   /\ paths'[r].count = 0
                   /\ PathMappings(WorldNext, r) = <<>>
                   /\ paths'[r].name = name
                   /\ DOMAIN path_id' = DOMAIN path_id \cup { name }
                   /\ path_id'[name] = r
                   /\ \A other \in DOMAIN path_id : path_id'[other] = path_id[other]
                   /\ \A q \in DOMAIN paths : paths'[q] = paths[q]
                   /\ UNCHANGED << graph, max_id, min_id, mappings, occurrences >>
      ]_vars

\* a second path has been created in a graph with nodes after the first
\* path was destroyed
C35_Witness ==
    ~ ( /\ last.op = "create_path_handle"
        /\ last.ret = << 2 >>
        /\ DOMAIN paths = { 2 }
        /\ paths[2].name = last.offs
        /\ path_id = (last.offs :> 2)
        /\ graph # <<>> )

(***************************************************************************)
(* C36.  Sequential for_each_handle visits the live nodes: the iteratee is *)
(* called with forward handles of live nodes only, at most once per node,  *)
(* never after a call that returned false, and once for every live node    *)
(* when every call returned true; the result is false if and only if a     *)
(* call returned false.                                                    *)
(***************************************************************************)
C36_SequentialForEachHandle ==
    ( /\ frame.op = "for_each_handle"
      /\ ~frame.parallel ) =>
        LET n == Len(frame.invoked)
        IN  /\ \A i \in 1..n :
                   /\ ~get_is_reverse(frame.invoked[i])
                   /\ get_id(frame.invoked[i]) \in DOMAIN graph
            /\ \A i, j \in 1..n : i # j => frame.invoked[i] # frame.invoked[j]
            /\ Len(frame.answers) = n
            /\ \A i \in 1..(n - 1) : frame.answers[i]
            /\ frame.pc = "done" =>
                   /\ frame.ret = (\A i \in 1..n : frame.answers[i])
                   /\ frame.ret =>
                          \A id \in DOMAIN graph :
                              Count(frame.invoked, get_handle(id, FALSE)) = 1

\* a sequential iteration over three nodes has returned true
C36_Witness ==
    ~ ( /\ frame.op = "for_each_handle"
        /\ ~frame.parallel
        /\ frame.pc = "done"
        /\ frame.ret
        /\ Len(frame.invoked) >= 3 )

\* a sequential iteration has returned false with nodes left unvisited
C36_WitnessStopped ==
    ~ ( /\ frame.op = "for_each_handle"
        /\ ~frame.parallel
        /\ frame.pc = "done"
        /\ ~frame.ret
        /\ Len(frame.invoked) >= 2
        /\ frame.todo # <<>> )

C37_WitnessMade ==
    ~ ( /\ last.op = "get_handle"
        /\ last.a = MaxId
        /\ last.b = 1
        /\ get_is_reverse(last.ret[1]) )

(***************************************************************************)
(* C38.  Stream layout: whatever orders the two hash maps are iterated in, *)
(* the stream serialize writes is max_id, min_id, next_path_id, the node   *)
(* count, then per live node its id, sequence length, sequence, left-entry *)
(* count, left entries, right-entry count and right entries, then the path *)
(* count, then per path its id, name length, name, step count and the step *)
(* handles from the first step to the last, and nothing more; every count  *)
(* is the number of items that follow it.                                  *)
(***************************************************************************)
\* the fields of a node record that starts at pos, read by the counts written
FieldsOfNode(stream, pos) ==
    LET n == stream[pos + 1]
        l == stream[pos + 2 + n]
        r == stream[pos + 3 + n + l]
    IN  [ id       |-> stream[pos],
          sequence |-> SubSeq(stream, pos + 2, pos + 1 + n),
          left     |-> SubSeq(stream, pos + 3 + n, pos + 2 + n + l),
          right    |-> SubSeq(stream, pos + 4 + n + l, pos + 3 + n + l + r),
          next     |-> pos + 4 + n + l + r ]

\* the fields of a path record that starts at pos, read by the counts written
FieldsOfPath(stream, pos) ==
    LET n == stream[pos + 1]
        c == stream[pos + 2 + n]
    IN  [ id    |-> stream[pos],
          name  |-> SubSeq(stream, pos + 2, pos + 1 + n),
          count |-> c,
          steps |-> SubSeq(stream, pos + 3 + n, pos + 2 + n + c),
          next  |-> pos + 3 + n + c ]

\* k node records, and k path records, in a row from pos
RECURSIVE NodeRecords(_, _, _)
NodeRecords(stream, pos, k) ==
    IF k = 0 THEN <<>>
    ELSE LET f == FieldsOfNode(stream, pos)
         IN  <<f>> \o NodeRecords(stream, f.next, k - 1)

RECURSIVE PathRecords(_, _, _)
PathRecords(stream, pos, k) ==
    IF k = 0 THEN <<>>
    ELSE LET f == FieldsOfPath(stream, pos)
         IN  <<f>> \o PathRecords(stream, f.next, k - 1)

StreamLayout(w, node_order, path_order) ==
    LET stream  == serialize(w, node_order, path_order)
        nodes   == NodeRecords(stream, 5, stream[4])
        atPaths == IF nodes = <<>> THEN 5 ELSE nodes[Len(nodes)].next
        records == PathRecords(stream, atPaths + 1, stream[atPaths])
        end     == IF records = <<>> THEN atPaths + 1
                   ELSE records[Len(records)].next
    IN  /\ stream[1] = w.max_id
        /\ stream[2] = w.min_id
        /\ stream[3] = w.next_path_id
        /\ stream[4] = Cardinality(DOMAIN w.graph)
        /\ Len(nodes) = Len(node_order)
        /\ \A i \in 1..Len(nodes) :
               LET node == w.graph[node_order[i]]
               IN  /\ nodes[i].id = node_order[i]
                   /\ Chars(nodes[i].sequence) = node.sequence
                   /\ nodes[i].left = node.left_edges
                   /\ nodes[i].right = node.right_edges
        /\ stream[atPaths] = Cardinality(DOMAIN w.paths)
        /\ Len(records) = Len(path_order)
        /\ \A i \in 1..Len(records) :
               LET path == w.paths[path_order[i]]
               IN  /\ records[i].id = path.path_id
                   /\ Chars(records[i].name) = path.name
                   /\ records[i].count = path.count
                   /\ records[i].steps = PathHandles(w, path_order[i])
                   /\ Len(records[i].steps) = records[i].count
        /\ end = Len(stream) + 1

\* the node records in every order with the paths in ascending order, and
\* the path records in every order with the nodes in ascending order
C38_StreamLayout ==
    LET node_orders == Orders(DOMAIN graph)
        path_orders == Orders(DOMAIN paths)
        nodes_up    == CHOOSE o \in node_orders : \A i \in 2..Len(o) : o[i - 1] < o[i]
        paths_up    == CHOOSE o \in path_orders : \A i \in 2..Len(o) : o[i - 1] < o[i]
    IN  /\ \A node_order \in node_orders :
               StreamLayout(World, node_order, paths_up)
        /\ \A path_order \in path_orders :
               StreamLayout(World, nodes_up, path_order)

\* a graph with two nodes or more, an edge, and a path of two different steps
\* or more is there to be written
C38_Witness ==
    ~ ( /\ Cardinality(DOMAIN graph) >= 2
        /\ \E id \in DOMAIN graph : graph[id].right_edges # <<>>
        /\ \E id \in DOMAIN graph : graph[id].left_edges # <<>>
        /\ \E p \in DOMAIN paths :
               /\ paths[p].count >= 2
               /\ PathHandles(World, p)[1] # PathHandles(World, p)[2] )

(***************************************************************************)
(* C39.  swap_handles(a, b) leaves the graph as it was, for any two handles *)
(* of live nodes or not, in any state and however often it is called:      *)
(* every node keeps its sequence and both adjacency lists, so every        *)
(* follow_edges result is the same, every path keeps its steps and the     *)
(* occurrence index its buckets.                                           *)
(***************************************************************************)
C39_SwapHandlesNoOp ==
    [][ (calls' = calls + 1 /\ last'.op = "swap_handles")
        => /\ DOMAIN graph' = DOMAIN graph
           /\ \A id \in DOMAIN graph :
                  /\ graph'[id].sequence = graph[id].sequence
                  /\ graph'[id].left_edges = graph[id].left_edges
                  /\ graph'[id].right_edges = graph[id].right_edges
                  /\ \A rev \in BOOLEAN, go_left \in BOOLEAN :
                         follow_edges(graph', get_handle(id, rev), go_left)
                           = follow_edges(graph, get_handle(id, rev), go_left)
           /\ DOMAIN paths' = DOMAIN paths
           /\ \A p \in DOMAIN paths :
                  /\ paths'[p] = paths[p]
                  /\ PathHandles(WorldNext, p) = PathHandles(World, p)
           /\ occurrences' = occurrences
           /\ UNCHANGED object
      ]_vars

\* two different live nodes with different sequences have been swapped in a
\* graph with an edge and a path step
C39_Witness ==
    ~ ( /\ last.op = "swap_handles"
        /\ get_id(last.a) \in DOMAIN graph
        /\ get_id(last.b) \in DOMAIN graph
        /\ get_id(last.a) # get_id(last.b)
        /\ graph[get_id(last.a)].sequence # graph[get_id(last.b)].sequence
        /\ \E id \in DOMAIN graph : graph[id].right_edges # <<>>
        /\ \E p \in DOMAIN paths : paths[p].count >= 1 )

\* a handle of a node that is not live has been swapped, after another swap
C39_WitnessAgain ==
    ~ ( /\ last.op = "swap_handles"
        /\ get_id(last.b) \notin DOMAIN graph
        /\ calls >= 3
        /\ graph # << >> )

(***************************************************************************)
(* C40.  Automatically allocated ids never collide: over create_handle     *)
(* with and without an id, destroy_handle and divide_handle since the last *)
(* clear, no live id is above max_id; the id create_handle(sequence)       *)
(* chooses and every id divide_handle allocates for a new segment is not   *)
(* the id of a live node when it is allocated, the ids of one split are    *)
(* different from each other, and no node record is overwritten: the node  *)
(* count grows by the number of ids allocated.                             *)
(***************************************************************************)
C40_AutomaticIdsNeverCollide ==
    [][ /\ \A live \in DOMAIN graph' : live <= max_id'
        /\ ( calls' = calls + 1 /\ last'.op = "create_handle" ) =>
               LET id == get_id(last'.ret[1])
               IN  /\ id \notin DOMAIN graph
                   /\ DOMAIN graph' = DOMAIN graph \cup { id }
                   /\ \A live \in DOMAIN graph : graph'[live] = graph[live]
        /\ ( calls' = calls + 1 /\ last'.op = "divide_handle" ) =>
               LET made == { get_id(last'.ret[i]) : i \in 1..Len(last'.ret) }
                             \ { get_id(last'.a) }
               IN  /\ made \cap DOMAIN graph = {}
                   /\ Cardinality(made) = Len(last'.offs)
                   /\ DOMAIN graph' = DOMAIN graph \cup made
                   /\ Cardinality(DOMAIN graph')
                        = Cardinality(DOMAIN graph) + Len(last'.offs)
      ]_vars

\* create_handle(sequence) has allocated an id in a graph that holds another
\* node and has an id below max_id that is not live
C40_Witness ==
    ~ ( /\ last.op = "create_handle"
        /\ get_id(last.ret[1]) = max_id
        /\ Cardinality(DOMAIN graph) >= 2
        /\ \E id \in 1..max_id : id \notin DOMAIN graph
        /\ calls >= 4 )

\* divide_handle has allocated an id with an id that is not live below it
C40_WitnessSplit ==
    ~ ( /\ last.op = "divide_handle"
        /\ Len(last.offs) >= 1
        /\ max_id \in DOMAIN graph
        /\ max_id \in { get_id(last.ret[i]) : i \in 1..Len(last.ret) }
        /\ \E id \in 1..(max_id - 1) : id \notin DOMAIN graph
        /\ get_id(last.a) \in DOMAIN graph )

=============================================================================
